---- MODULE Spec2Model ----
(***************************************************************************)
(* Model of the Australian census pipeline of bigmetadata (tasks/au/data.py):*)
(* the prerequisite declarations and the column resolution of the Columns  *)
(* task, the materialization of one output table by XCP.populate, and the *)
(* column lists of the statements populate_general builds.                 *)
(*                                                                         *)
(* Strings whose characters the code inspects (table ids, profile names,   *)
(* dictionary keys) are sequences of one-character strings, so that        *)
(* str.startswith and re.match are computed, not assumed.                  *)
(***************************************************************************)
EXTENDS Integers, Sequences, FiniteSets, TLC

VARIABLES
    pc,          \* XCP.populate: position of the call
    year,        \* XCP.year
    resolution,  \* XCP.resolution
    tablename,   \* XCP.tablename
    idx,         \* populate_general: index in STATES of the next partition
    failstates,  \* populate_general: local list failstates
    attempts,    \* per partition, the outcomes of the session.execute calls made for it
    output,      \* rows the session's open transaction holds in the output table
    stmt_failed, \* populate_mb: TRUE once its statement has raised
    raised,      \* exceptions that left populate, in order
    path,        \* expansion of requires(): a chain of Columns tasks
    status,      \* scheduler: per Columns task, "pending", "running" or "done"
    c_self,      \* Columns.columns: the task whose columns() runs
    c_input,     \* Columns.columns: self.input(), the column-group entries
    c_reqs,      \* Columns.columns: local dict column_reqs
    c_lines,     \* Columns.columns: the feed lines read so far
    c_cols,      \* Columns.columns: local OrderedDict cols
    c_pc,        \* Columns.columns: "scan", "returned", "KeyError" or "handed"
    c_xcp,       \* the OrderedDict XCP.columns builds from the returned columns
    x_self,      \* projection: the XCP task (year, resolution, tablename)
    x_meta,      \* projection: input_['meta'], the resolved column set
    x_cols,      \* projection: local column_targets of populate_general
    x_idx,       \* projection: index in STATES of the next partition
    x_cmd,       \* projection: the column lists of the statement built last
    x_pc,        \* projection: "columns", "loop", "done" or "synced"
    x_upload,    \* projection: the output table's name and what should_upload said of it
    m_cols,      \* populate_mb: local column_targets
    m_mb,        \* populate_mb: the rows of the geometry table of the finest tier
    m_sa1geo,    \* populate_mb: the rows of the geometry table of the parent tier
    m_sa1data,   \* populate_mb: the rows of the parent tier's output table
    m_stmt,      \* populate_mb: the column lists of insert_query
    m_out,       \* populate_mb: the rows the statement inserts
    m_pc,        \* populate_mb: "columns", "built" or "executed"
    w_self,      \* XCPAllTables.requires: the wrapper task (year, resolution)
    w_yielded,   \* XCPAllTables.requires: the tasks yielded so far
    w_pc,        \* XCPAllTables.requires: "loop" or "done"
    f_decl,      \* ColumnsDeclarations: self._columns
    f_columns,   \* filter_columns: argument columns
    f_params,    \* filter_columns: argument parameters, a JSON text
    f_kept,      \* filter_columns: the OrderedDict returned
    f_pc,        \* filter_columns: "call", "filtered" or "refiltered"
    p_resp,      \* PurgeUndocumentedTables.run: the table names of resp, in its order
    p_idx,       \* PurgeUndocumentedTables.run: index in resp of the next table
    p_tables,    \* PurgeUndocumentedTables.run: the tables of the schema observatory
    p_dropped,   \* PurgeUndocumentedTables.run: the tables dropped, as they were
    p_pc,        \* PurgeUndocumentedTables.run: "run", "returned" or "raised"
    o_force,     \* OBSMetaToCarto: self.force
    o_remote,    \* OBSMetaToCarto: who made the remote table obs_meta, "" if there is none
    o_calls,     \* OBSMetaToCarto: the calls made on the task, in order
    o_removed    \* OBSMetaToCarto: the makers of the tables target.remove() removed

popVars == <<pc, year, resolution, tablename, idx, failstates, attempts, output,
             stmt_failed, raised>>
reqVars == <<path>>
schedVars == <<status>>
colVars == <<c_self, c_input, c_reqs, c_lines, c_cols, c_pc, c_xcp>>
xcpVars == <<x_self, x_meta, x_cols, x_idx, x_cmd, x_pc, x_upload>>
mbVars == <<m_cols, m_mb, m_sa1geo, m_sa1data, m_stmt, m_out, m_pc>>

wrapVars == <<w_self, w_yielded, w_pc>>
filterVars == <<f_decl, f_columns, f_params, f_kept, f_pc>>
purgeVars == <<p_resp, p_idx, p_tables, p_dropped, p_pc>>
metaVars == <<o_force, o_remote, o_calls, o_removed>>

\* The variables of tasks/au/data.py, and those of the other modules.
auVars == <<popVars, reqVars, schedVars, colVars, xcpVars, mbVars>>
restVars == <<wrapVars, filterVars, purgeVars, metaVars>>

vars == <<auVars, restVars>>

\* Each specification below drives one group of variables and leaves the others
\* at these values.
IdlePopulate ==
    /\ pc = "idle" /\ year = 0 /\ resolution = "" /\ tablename = <<>> /\ idx = 0
    /\ failstates = <<>> /\ attempts = <<>> /\ output = {} /\ stmt_failed = FALSE
    /\ raised = <<>>
IdleRequires == path = <<>>
IdleSched == status = <<>>
IdleColumns ==
    /\ c_self = <<>> /\ c_input = <<>> /\ c_reqs = <<>> /\ c_lines = <<>>
    /\ c_cols = <<>> /\ c_pc = "idle" /\ c_xcp = <<>>
IdleProject ==
    /\ x_self = <<>> /\ x_meta = <<>> /\ x_cols = <<>> /\ x_idx = 0
    /\ x_cmd = <<>> /\ x_pc = "idle" /\ x_upload = <<>>
IdleInterpolate ==
    /\ m_cols = <<>> /\ m_mb = {} /\ m_sa1geo = {} /\ m_sa1data = {}
    /\ m_stmt = <<>> /\ m_out = {} /\ m_pc = "idle"
IdleWrapper == w_self = <<>> /\ w_yielded = <<>> /\ w_pc = "idle"
IdleFilter ==
    /\ f_decl = <<>> /\ f_columns = <<>> /\ f_params = <<>> /\ f_kept = <<>>
    /\ f_pc = "idle"
IdlePurge ==
    /\ p_resp = <<>> /\ p_idx = 0 /\ p_tables = {} /\ p_dropped = {} /\ p_pc = "idle"
IdleMeta == o_force = FALSE /\ o_remote = "" /\ o_calls = <<>> /\ o_removed = <<>>
IdleRest == IdleWrapper /\ IdleFilter /\ IdlePurge /\ IdleMeta

-----------------------------------------------------------------------------
(* String helpers.                                                         *)

\* str.startswith
StartsWith_firstchar(s, prefix) ==
    prefix = <<>> \/ (s # <<>> /\ s[1] = prefix[1])
StartsWith(s, prefix) ==
    /\ Len(s) >= Len(prefix)
    /\ SubSeq(s, 1, Len(prefix)) = prefix

\* Elements of a sequence.
Range(s) == {s[i] : i \in 1..Len(s)}

-----------------------------------------------------------------------------
(* Module constants of tasks/au/data.py.                                   *)

\* The table-id literals of the source, as character sequences.
Id ==
    [ B01 |-> <<"B","0","1">>, B02 |-> <<"B","0","2">>, B03 |-> <<"B","0","3">>,
      B04A |-> <<"B","0","4","A">>, B04B |-> <<"B","0","4","B">>, B05 |-> <<"B","0","5">>,
      B06 |-> <<"B","0","6">>, B07 |-> <<"B","0","7">>, B08A |-> <<"B","0","8","A">>,
      B08B |-> <<"B","0","8","B">>, B09 |-> <<"B","0","9">>, B10A |-> <<"B","1","0","A">>,
      B10B |-> <<"B","1","0","B">>, B10C |-> <<"B","1","0","C">>, B11A |-> <<"B","1","1","A">>,
      B11B |-> <<"B","1","1","B">>, B12A |-> <<"B","1","2","A">>, B12B |-> <<"B","1","2","B">>,
      B13 |-> <<"B","1","3">>, B14 |-> <<"B","1","4">>, B15 |-> <<"B","1","5">>,
      B16A |-> <<"B","1","6","A">>, B16B |-> <<"B","1","6","B">>, B17A |-> <<"B","1","7","A">>,
      B17B |-> <<"B","1","7","B">>, B18 |-> <<"B","1","8">>, B19 |-> <<"B","1","9">>,
      B20A |-> <<"B","2","0","A">>, B20B |-> <<"B","2","0","B">>, B21 |-> <<"B","2","1">>,
      B22A |-> <<"B","2","2","A">>, B22B |-> <<"B","2","2","B">>, B23A |-> <<"B","2","3","A">>,
      B23B |-> <<"B","2","3","B">>, B24 |-> <<"B","2","4">>, B25 |-> <<"B","2","5">>,
      B26 |-> <<"B","2","6">>, B27 |-> <<"B","2","7">>, B28 |-> <<"B","2","8">>,
      B29 |-> <<"B","2","9">>, B30 |-> <<"B","3","0">>, B31 |-> <<"B","3","1">>,
      B32 |-> <<"B","3","2">>, B33 |-> <<"B","3","3">>, B34 |-> <<"B","3","4">>,
      B35 |-> <<"B","3","5">>, B36 |-> <<"B","3","6">>, B37 |-> <<"B","3","7">>,
      B38 |-> <<"B","3","8">>, B39 |-> <<"B","3","9">>, B40A |-> <<"B","4","0","A">>,
      B40B |-> <<"B","4","0","B">>, B41A |-> <<"B","4","1","A">>, B41B |-> <<"B","4","1","B">>,
      B41C |-> <<"B","4","1","C">>, B42A |-> <<"B","4","2","A">>, B42B |-> <<"B","4","2","B">>,
      B43A |-> <<"B","4","3","A">>, B43B |-> <<"B","4","3","B">>, B43C |-> <<"B","4","3","C">>,
      B43D |-> <<"B","4","3","D">>, B44A |-> <<"B","4","4","A">>, B44B |-> <<"B","4","4","B">>,
      B45A |-> <<"B","4","5","A">>, B45B |-> <<"B","4","5","B">>, B46 |-> <<"B","4","6">>,
      G01 |-> <<"G","0","1">>, G02 |-> <<"G","0","2">>, G03 |-> <<"G","0","3">>,
      G04A |-> <<"G","0","4","A">>, G04B |-> <<"G","0","4","B">>, G05 |-> <<"G","0","5">>,
      G06 |-> <<"G","0","6">>, G07 |-> <<"G","0","7">>, G08 |-> <<"G","0","8">>,
      G09A |-> <<"G","0","9","A">>, G09B |-> <<"G","0","9","B">>, G09C |-> <<"G","0","9","C">>,
      G09D |-> <<"G","0","9","D">>, G09E |-> <<"G","0","9","E">>, G09F |-> <<"G","0","9","F">>,
      G09G |-> <<"G","0","9","G">>, G09H |-> <<"G","0","9","H">>, G10A |-> <<"G","1","0","A">>,
      G10B |-> <<"G","1","0","B">>, G10C |-> <<"G","1","0","C">>, G11A |-> <<"G","1","1","A">>,
      G11B |-> <<"G","1","1","B">>, G11C |-> <<"G","1","1","C">>, G12A |-> <<"G","1","2","A">>,
      G12B |-> <<"G","1","2","B">>, G13A |-> <<"G","1","3","A">>, G13B |-> <<"G","1","3","B">>,
      G13C |-> <<"G","1","3","C">>, G14 |-> <<"G","1","4">>, G15 |-> <<"G","1","5">>,
      G16A |-> <<"G","1","6","A">>, G16B |-> <<"G","1","6","B">>, G17A |-> <<"G","1","7","A">>,
      G17B |-> <<"G","1","7","B">>, G17C |-> <<"G","1","7","C">>, G18 |-> <<"G","1","8">>,
      G19 |-> <<"G","1","9">>, G20A |-> <<"G","2","0","A">>, G20B |-> <<"G","2","0","B">>,
      G21 |-> <<"G","2","1">>, G22A |-> <<"G","2","2","A">>, G22B |-> <<"G","2","2","B">>,
      G23A |-> <<"G","2","3","A">>, G23B |-> <<"G","2","3","B">>, G24 |-> <<"G","2","4">>,
      G25 |-> <<"G","2","5">>, G26 |-> <<"G","2","6">>, G27 |-> <<"G","2","7">>,
      G28 |-> <<"G","2","8">>, G29 |-> <<"G","2","9">>, G30 |-> <<"G","3","0">>,
      G31 |-> <<"G","3","1">>, G32 |-> <<"G","3","2">>, G33 |-> <<"G","3","3">>,
      G34 |-> <<"G","3","4">>, G35 |-> <<"G","3","5">>, G36 |-> <<"G","3","6">>,
      G37 |-> <<"G","3","7">>, G38 |-> <<"G","3","8">>, G39 |-> <<"G","3","9">>,
      G40 |-> <<"G","4","0">>, G41 |-> <<"G","4","1">>, G42 |-> <<"G","4","2">>,
      G43A |-> <<"G","4","3","A">>, G43B |-> <<"G","4","3","B">>, G44A |-> <<"G","4","4","A">>,
      G44B |-> <<"G","4","4","B">>, G44C |-> <<"G","4","4","C">>, G44D |-> <<"G","4","4","D">>,
      G44E |-> <<"G","4","4","E">>, G44F |-> <<"G","4","4","F">>, G45A |-> <<"G","4","5","A">>,
      G45B |-> <<"G","4","5","B">>, G46A |-> <<"G","4","6","A">>, G46B |-> <<"G","4","6","B">>,
      G47A |-> <<"G","4","7","A">>, G47B |-> <<"G","4","7","B">>, G47C |-> <<"G","4","7","C">>,
      G48A |-> <<"G","4","8","A">>, G48B |-> <<"G","4","8","B">>, G48C |-> <<"G","4","8","C">>,
      G49A |-> <<"G","4","9","A">>, G49B |-> <<"G","4","9","B">>, G49C |-> <<"G","4","9","C">>,
      G50A |-> <<"G","5","0","A">>, G50B |-> <<"G","5","0","B">>, G50C |-> <<"G","5","0","C">>,
      G51A |-> <<"G","5","1","A">>, G51B |-> <<"G","5","1","B">>, G51C |-> <<"G","5","1","C">>,
      G51D |-> <<"G","5","1","D">>, G52A |-> <<"G","5","2","A">>, G52B |-> <<"G","5","2","B">>,
      G52C |-> <<"G","5","2","C">>, G52D |-> <<"G","5","2","D">>, G53A |-> <<"G","5","3","A">>,
      G53B |-> <<"G","5","3","B">>, G54A |-> <<"G","5","4","A">>, G54B |-> <<"G","5","4","B">>,
      G55A |-> <<"G","5","5","A">>, G55B |-> <<"G","5","5","B">>, G56A |-> <<"G","5","6","A">>,
      G56B |-> <<"G","5","6","B">>, G57A |-> <<"G","5","7","A">>, G57B |-> <<"G","5","7","B">>,
      G58A |-> <<"G","5","8","A">>, G58B |-> <<"G","5","8","B">>, G59 |-> <<"G","5","9">> ]

PROFILES == [y \in {2011, 2016} |->
                IF y = 2011 THEN <<"B","C","P">> ELSE <<"G","C","P">>]

STATES == <<"NSW", "Vic", "Qld", "SA", "WA", "Tas", "NT", "ACT", "OT">>

TABLES_2011 ==
    << Id.B01, Id.B02, Id.B03, Id.B04A, Id.B04B, Id.B05, Id.B06, Id.B07, Id.B08A, Id.B08B,
       Id.B09, Id.B10A, Id.B10B, Id.B10C, Id.B11A, Id.B11B, Id.B12A, Id.B12B, Id.B13, Id.B14,
       Id.B15, Id.B16A, Id.B16B, Id.B17A, Id.B17B, Id.B18, Id.B19, Id.B20A, Id.B20B, Id.B21,
       Id.B22A, Id.B22B, Id.B23A, Id.B23B, Id.B24, Id.B25, Id.B26, Id.B27, Id.B28, Id.B29,
       Id.B30, Id.B31, Id.B32, Id.B33, Id.B34, Id.B35, Id.B36, Id.B37, Id.B38, Id.B39, Id.B40A,
       Id.B40B, Id.B41A, Id.B41B, Id.B41C, Id.B42A, Id.B42B, Id.B43A, Id.B43B, Id.B43C, Id.B43D,
       Id.B44A, Id.B44B, Id.B45A, Id.B45B, Id.B46 >>

TABLES_2016 ==
    << Id.G01, Id.G02, Id.G03, Id.G04A, Id.G04B, Id.G05, Id.G06, Id.G07, Id.G08, Id.G09A,
       Id.G09B, Id.G09C, Id.G09D, Id.G09E, Id.G09F, Id.G09G, Id.G09H, Id.G10A, Id.G10B, Id.G10C,
       Id.G11A, Id.G11B, Id.G11C, Id.G12A, Id.G12B, Id.G13A, Id.G13B, Id.G13C, Id.G14, Id.G15,
       Id.G16A, Id.G16B, Id.G17A, Id.G17B, Id.G17C, Id.G18, Id.G19, Id.G20A, Id.G20B, Id.G21,
       Id.G22A, Id.G22B, Id.G23A, Id.G23B, Id.G24, Id.G25, Id.G26, Id.G27, Id.G28, Id.G29,
       Id.G30, Id.G31, Id.G32, Id.G33, Id.G34, Id.G35, Id.G36, Id.G37, Id.G38, Id.G39, Id.G40,
       Id.G41, Id.G42, Id.G43A, Id.G43B, Id.G44A, Id.G44B, Id.G44C, Id.G44D, Id.G44E, Id.G44F,
       Id.G45A, Id.G45B, Id.G46A, Id.G46B, Id.G47A, Id.G47B, Id.G47C, Id.G48A, Id.G48B, Id.G48C,
       Id.G49A, Id.G49B, Id.G49C, Id.G50A, Id.G50B, Id.G50C, Id.G51A, Id.G51B, Id.G51C, Id.G51D,
       Id.G52A, Id.G52B, Id.G52C, Id.G52D, Id.G53A, Id.G53B, Id.G54A, Id.G54B, Id.G55A, Id.G55B,
       Id.G56A, Id.G56B, Id.G57A, Id.G57B, Id.G58A, Id.G58B, Id.G59 >>

TABLES == [y \in {2011, 2016} |-> IF y = 2011 THEN TABLES_2011 ELSE TABLES_2016]

\* Resolution names imported from tasks.au.geo.
GEO_MB == "MB"
GEO_SA1 == "SA1"

-----------------------------------------------------------------------------
(* The execution context: the session returned by current_session().       *)
(* Statements run inside one open transaction; nothing they write is       *)
(* durable until commit(), and rollback() discards everything the          *)
(* transaction holds.                                                      *)

RowsPerPartition == 2

\* The rows one insert-from-select statement of a partition produces.
Rows(part) == {<<part, k>> : k \in 1..RowsPerPartition}

\* session.execute(cmd): the statement either completes and has written all of
\* its rows, or raises having written only a part of them into the open
\* transaction.
ExecuteOutcomes(rows) ==
    {[ok |-> TRUE, written |-> rows]}
        \cup {[ok |-> FALSE, written |-> w] : w \in (SUBSET rows) \ {rows}}

\* session.rollback(): the open transaction is discarded, and with it every
\* row written since the last commit.
SessionRollback(held) == {}

-----------------------------------------------------------------------------
(* XCP.populate                                                            *)

\* populate(): the strategy chosen for the request.
PopulateStrategy_general(res) == "general"
PopulateStrategy(res) == IF res = GEO_MB THEN "mb" ELSE "general"

\* A loop that stops at the first failing partition.
NextPartition_break(i, ok) == IF ok THEN i + 1 ELSE Len(STATES) + 1

\* populate_general: the for loop moves to the next partition whether or not
\* the statement of the current one raised.
NextPartition(i, ok) == i + 1

\* A failure list that keeps only the last failing partition.
RecordFailure_overwrite(fs, state) == <<state>>

\* populate_general: failstates.append(state)
RecordFailure(fs, state) == Append(fs, state)

\* populate_general: what the except clause leaves in the transaction.
GeneralExceptHandler(held) == SessionRollback(held)

\* populate_general: the exception raised after the loop; its message is the
\* format string filled with failstates, self.resolution and self.tablename.
GeneralError(fs, res, tab) ==
    [kind |-> "Exception", states |-> fs, resolution |-> res, tablename |-> tab]

\* An except clause that swallows the error without rolling back.
MbExceptHandler_pass(held) == held

\* populate_mb: what the except clause leaves in the transaction.
MbExceptHandler(held) == SessionRollback(held)

\* The requests explored: both census years, the finest tier, its parent and
\* one coarser tier, and the first tables of the year.
Resolutions == {GEO_MB, GEO_SA1, "SA2"}
RequestTables(y) == {TABLES[y][1], TABLES[y][2]}

InitPopulate ==
    /\ year \in DOMAIN TABLES
    /\ resolution \in Resolutions
    /\ tablename \in RequestTables(year)
    /\ pc = "populate"
    /\ idx = 1
    /\ failstates = <<>>
    /\ attempts = [s \in Range(STATES) \cup {GEO_MB} |-> <<>>]
    /\ output = {}
    /\ stmt_failed = FALSE
    /\ raised = <<>>
    /\ IdleRequires /\ IdleSched /\ IdleColumns /\ IdleProject /\ IdleInterpolate /\ IdleRest

\* populate(): dispatch on the resolution.
Populate ==
    /\ pc = "populate"
    /\ pc' = PopulateStrategy(resolution)
    /\ idx' = 1
    /\ failstates' = <<>>
    /\ UNCHANGED <<year, resolution, tablename, attempts, output, stmt_failed, raised>>
    /\ UNCHANGED <<reqVars, schedVars, colVars, xcpVars, mbVars, restVars>>

\* populate_general: one iteration of the loop over the partitions.
PopulateGeneralStep ==
    /\ pc = "general"
    /\ idx <= Len(STATES)
    /\ LET state == STATES[idx] IN
       \E o \in ExecuteOutcomes(Rows(state)) :
          /\ attempts' = [attempts EXCEPT ![state] = Append(@, o.ok)]
          /\ IF o.ok
                THEN /\ output' = output \cup o.written
                     /\ failstates' = failstates
                ELSE /\ failstates' = RecordFailure(failstates, state)
                     /\ output' = GeneralExceptHandler(output \cup o.written)
          /\ idx' = NextPartition(idx, o.ok)
    /\ UNCHANGED <<pc, year, resolution, tablename, stmt_failed, raised>>
    /\ UNCHANGED <<reqVars, schedVars, colVars, xcpVars, mbVars, restVars>>

\* populate_general: after the loop, raise if any partition failed.
PopulateGeneralEnd ==
    /\ pc = "general"
    /\ idx > Len(STATES)
    /\ IF failstates # <<>>
          THEN /\ raised' = Append(raised, GeneralError(failstates, resolution, tablename))
               /\ pc' = "raised"
          ELSE /\ raised' = raised
               /\ pc' = "returned"
    /\ UNCHANGED <<year, resolution, tablename, idx, failstates, attempts, output,
                   stmt_failed>>
    /\ UNCHANGED <<reqVars, schedVars, colVars, xcpVars, mbVars, restVars>>

\* populate_mb: the single interpolation statement, and the except clause
\* that follows it; the method returns in both cases.
PopulateMb ==
    /\ pc = "mb"
    /\ \E o \in ExecuteOutcomes(Rows(GEO_MB)) :
          /\ attempts' = [attempts EXCEPT ![GEO_MB] = Append(@, o.ok)]
          /\ stmt_failed' = ~o.ok
          /\ output' = IF o.ok THEN output \cup o.written
                               ELSE MbExceptHandler(output \cup o.written)
    /\ pc' = "returned"
    /\ UNCHANGED <<year, resolution, tablename, idx, failstates, raised>>
    /\ UNCHANGED <<reqVars, schedVars, colVars, xcpVars, mbVars, restVars>>

Init == InitPopulate

Next ==
    \/ Populate
    \/ PopulateGeneralStep
    \/ PopulateGeneralEnd
    \/ PopulateMb

Spec == Init /\ [][Next]_vars

-----------------------------------------------------------------------------
(* Columns.requires                                                        *)

\* The task Columns(tablename=..., year=..., profile=...).
Columns(tab, y, prof) == [tablename |-> tab, year |-> y, profile |-> prof]

\* requirements[key] = task, on an insertion-ordered dict held as a sequence
\* of entries: an existing key keeps its position and takes the new value.
Put(req, key, task) ==
    IF \E i \in 1..Len(req) : req[i].key = key
        THEN [i \in 1..Len(req) |->
                 IF req[i].key = key THEN [key |-> key, task |-> task] ELSE req[i]]
        ELSE Append(req, [key |-> key, task |-> task])

\* requirements[k] = Columns(tablename=k, year=self.year, profile=self.profile)
\* for each k of keys, in order.
RECURSIVE RequireAll(_, _, _)
RequireAll(req, self, keys) ==
    IF keys = <<>> THEN req
    ELSE RequireAll(Put(req, Head(keys), Columns(Head(keys), self.year, self.profile)),
                    self, Tail(keys))

\* re.compile(pattern).match(s), for a pattern that is a sequence of character
\* classes: the match is anchored at the start of s only.
ReMatch(pattern, s) ==
    /\ Len(s) >= Len(pattern)
    /\ \A i \in 1..Len(pattern) : s[i] \in pattern[i]

\* A branch that declares only the first of its requirements.
IfTable_first(req, self, name, keys) ==
    IF self.tablename = name THEN RequireAll(req, self, <<Head(keys)>>) ELSE req

\* if self.tablename == name: requirements[...] = ...
IfTable(req, self, name, keys) ==
    IF self.tablename = name THEN RequireAll(req, self, keys) ELSE req

\* if pattern.match(self.tablename): requirements[...] = ...
IfMatch(req, self, pattern, keys) ==
    IF ReMatch(pattern, self.tablename) THEN RequireAll(req, self, keys) ELSE req

\* A base rule without its guard: B01 is required by B01 too.
RequireBase_unguarded(req, self) == RequireAll(req, self, <<Id.B01>>)

\* "all tables except B01 require B01"
RequireBase(req, self) ==
    IF self.tablename # Id.B01 THEN RequireAll(req, self, <<Id.B01>>) ELSE req

\* The conditional statements of requires() after the base rule, in source
\* order: the table id compared with self.tablename, or the pattern matched
\* against it, and the keys the statement adds.
RequireRules ==
    << [table |-> Id.B02, pattern |-> <<>>, keys |-> <<Id.B01, Id.B17B>>],
       [table |-> Id.B04A, pattern |-> <<>>, keys |-> <<Id.B04B>>],
       [table |-> Id.B08A, pattern |-> <<>>, keys |-> <<Id.B08B>>],
       [table |-> Id.B10A, pattern |-> <<>>, keys |-> <<Id.B10B, Id.B10C>>],
       [table |-> Id.B10B, pattern |-> <<>>, keys |-> <<Id.B10C>>],
       [table |-> Id.B11A, pattern |-> <<>>, keys |-> <<Id.B11B>>],
       [table |-> Id.B12A, pattern |-> <<>>, keys |-> <<Id.B12B>>],
       [table |-> Id.B16A, pattern |-> <<>>, keys |-> <<Id.B16B>>],
       [table |-> Id.B17A, pattern |-> <<>>, keys |-> <<Id.B17B>>],
       [table |-> Id.B20A, pattern |-> <<>>, keys |-> <<Id.B20B>>],
       [table |-> Id.B22A, pattern |-> <<>>, keys |-> <<Id.B22B>>],
       [table |-> Id.B23A, pattern |-> <<>>, keys |-> <<Id.B23B>>],
       [table |-> <<>>, pattern |-> <<{"B"}, {"2"}, {"6", "7", "8"}>>, keys |-> <<Id.B25>>],
       [table |-> <<>>, pattern |-> <<{"B"}, {"3"}, {"1", "2", "3", "4", "5", "6"}>>, keys |-> <<Id.B29>>],
       [table |-> Id.B40A, pattern |-> <<>>, keys |-> <<Id.B40B>>],
       [table |-> Id.B42A, pattern |-> <<>>, keys |-> <<Id.B42B>>],
       [table |-> Id.B44A, pattern |-> <<>>, keys |-> <<Id.B44B>>],
       [table |-> Id.B45A, pattern |-> <<>>, keys |-> <<Id.B45B>>],
       [table |-> Id.B41A, pattern |-> <<>>, keys |-> <<Id.B41B, Id.B41C>>],
       [table |-> Id.B41B, pattern |-> <<>>, keys |-> <<Id.B41C>>],
       [table |-> Id.B43A, pattern |-> <<>>, keys |-> <<Id.B43B, Id.B43C, Id.B43D>>],
       [table |-> Id.B43B, pattern |-> <<>>, keys |-> <<Id.B43C, Id.B43D>>],
       [table |-> Id.B43C, pattern |-> <<>>, keys |-> <<Id.B43D>>] >>

\* One conditional statement of requires().
ApplyRule(req, self, rule) ==
    IF rule.pattern = <<>>
        THEN IfTable(req, self, rule.table, rule.keys)
        ELSE IfMatch(req, self, rule.pattern, rule.keys)

\* The conditional statements from the i-th on.
RECURSIVE ApplyRules(_, _, _)
ApplyRules(req, self, i) ==
    IF i > Len(RequireRules) THEN req
    ELSE ApplyRules(ApplyRule(req, self, RequireRules[i]), self, i + 1)

\* Columns.requires(): the column-group entries of the returned dict, in
\* insertion order. The five tag entries ('sections', 'subsections', 'units',
\* 'source', 'license') come first in the dict and are left out here: they are
\* not column groups and no key of theirs starts with a profile's first letter.
requires(self) == ApplyRules(RequireBase(<<>>, self), self, 1)

\* The keys of requires(), in order, and the tasks it names.
RequiresKeys(self) == [i \in 1..Len(requires(self)) |-> requires(self)[i].key]
RequiresTasks(self) == {requires(self)[i].task : i \in 1..Len(requires(self))}

-----------------------------------------------------------------------------
(* Expansion of the prerequisites: from any table of TABLES, follow        *)
(* requires() from task to task, as building the task graph does.          *)

MaxDepth == 7

InitRequires ==
    /\ \E y \in DOMAIN TABLES : \E t \in Range(TABLES[y]) :
          path = <<Columns(t, y, PROFILES[y])>>
    /\ IdlePopulate /\ IdleSched /\ IdleColumns /\ IdleProject /\ IdleInterpolate /\ IdleRest

\* One more task of the chain: a task the last one requires.
Expand ==
    /\ path # <<>>
    /\ Len(path) < MaxDepth
    /\ \E task \in RequiresTasks(path[Len(path)]) : path' = Append(path, task)
    /\ UNCHANGED <<popVars, schedVars, colVars, xcpVars, mbVars, restVars>>

NextRequires == Expand

SpecRequires == InitRequires /\ [][NextRequires]_vars

-----------------------------------------------------------------------------
(* The scheduler: a task runs only after every task returned by its        *)
(* requires() has completed. Several tasks may run at once.                *)

\* The tables scheduled: the base table, a three-way part-table family, B02
\* with its second prerequisite, and one table of each range rule with the
\* shared table it depends on (2011); the base table the code names and three
\* tables of the later profile (2016).
SchedTables(y) ==
    IF y = 2011
        THEN {Id.B01, Id.B02, Id.B17B, Id.B10A, Id.B10B, Id.B10C,
              Id.B25, Id.B26, Id.B29, Id.B31}
        ELSE {Id.B01, Id.G01, Id.G02, Id.G09A}

InitSched ==
    /\ \E y \in DOMAIN TABLES :
          status = [task \in {Columns(t, y, PROFILES[y]) : t \in SchedTables(y)}
                        |-> "pending"]
    /\ IdlePopulate /\ IdleRequires /\ IdleColumns /\ IdleProject /\ IdleInterpolate /\ IdleRest

\* The scheduler starts a pending task whose requirements are all complete.
TaskStart ==
    \E task \in DOMAIN status :
        /\ status[task] = "pending"
        /\ \A r \in RequiresTasks(task) : r \in DOMAIN status /\ status[r] = "done"
        /\ status' = [status EXCEPT ![task] = "running"]
        /\ UNCHANGED <<popVars, reqVars, colVars, xcpVars, mbVars, restVars>>

\* A running task completes: its columns are resolved and stored.
TaskComplete ==
    \E task \in DOMAIN status :
        /\ status[task] = "running"
        /\ status' = [status EXCEPT ![task] = "done"]
        /\ UNCHANGED <<popVars, reqVars, colVars, xcpVars, mbVars, restVars>>

NextSched == TaskStart \/ TaskComplete

SpecSched == InitSched /\ [][NextSched]_vars

-----------------------------------------------------------------------------
(* Columns.columns                                                         *)
(*                                                                         *)
(* A column id is the pair <<table id, n>>: the feed prefixes every column *)
(* id with the id of its table (populate_general strips that prefix again),*)
(* n tells the columns of one table apart. The empty string is <<>>.       *)
(* A descriptor carries the fields of OBSColumn that resolution decides;   *)
(* name, description and tags are copied from the line and left out.       *)

\* OBSColumn(id=..., type='Numeric', weight=5, aggregate=..., targets=...)
OBSColumn(id, aggregate, targets) ==
    [id |-> id, type |-> "Numeric", weight |-> 5, aggregate |-> aggregate,
     targets |-> targets]

\* Python's None, where a descriptor is expected and where the text of a feed
\* cell is expected.
None == [none |-> TRUE]
NoneStr == "<None>"

\* dict.update: entries of b replace entries of a with the same key.
DictUpdate(a, b) ==
    [k \in DOMAIN a \cup DOMAIN b |-> IF k \in DOMAIN b THEN b[k] ELSE a[k]]

\* column_reqs: the groups of input_ whose key starts with the first letter of
\* the profile, merged in the order of input_.
RECURSIVE ColumnReqs(_, _, _)
ColumnReqs(self, input_, acc) ==
    IF input_ = <<>> THEN acc
    ELSE LET entry == Head(input_)
             merged == IF StartsWith(entry.key, <<self.profile[1]>>)
                          THEN DictUpdate(acc, entry.value)
                          ELSE acc
         IN  ColumnReqs(self, Tail(input_), merged)

\* A value of a supplied group: the column a prerequisite task declares, and
\* whether that task has stored it.
ColumnTarget(column, stored) == [column |-> column, stored |-> stored]

\* column_reqs[denom_id].get(session): the descriptor the prerequisite task
\* stored for the id, None if it has stored none.
TargetGet(target) == IF target.stored THEN target.column ELSE None

\* cols[col_id] = column on an OrderedDict held as a sequence: an existing id
\* keeps its position.
ColsPut_prepend(cols, column) == <<column>> \o cols
ColsPut(cols, column) ==
    IF \E i \in 1..Len(cols) : cols[i].id = column.id
        THEN [i \in 1..Len(cols) |-> IF cols[i].id = column.id THEN column ELSE cols[i]]
        ELSE Append(cols, column)

ColsHas(cols, id) == \E i \in 1..Len(cols) : cols[i].id = id
ColsGet(cols, id) == cols[CHOOSE i \in 1..Len(cols) : cols[i].id = id]

\* col_agg: column I of the line, read for the table '<P>02' only.
ColAgg(self, line) ==
    IF line.tablename = <<self.profile[1], "0", "2">> THEN line.agg ELSE NoneStr

\* reltype of the targets a line creates.
RelType_denominator(col_agg) == "denominator"
RelType(col_agg) ==
    IF col_agg \in {"median", "average"} THEN "universe" ELSE "denominator"

\* The descriptor a non-empty token is bound to: the one the prerequisite
\* groups hold for the id (None if its task stored none), else the one an
\* earlier line of this scan put in cols; cols[denom_id] raises KeyError when
\* the id is in neither.
Lookup_colsfirst(denom_id, column_reqs, cols) ==
    IF \E i \in 1..Len(cols) : cols[i].id = denom_id
        THEN [raised |-> FALSE,
              target |-> cols[CHOOSE i \in 1..Len(cols) : cols[i].id = denom_id]]
    ELSE IF denom_id \in DOMAIN column_reqs
        THEN [raised |-> FALSE,
              target |-> IF column_reqs[denom_id].stored
                            THEN column_reqs[denom_id].column ELSE [none |-> TRUE]]
    ELSE [raised |-> TRUE, target |-> [none |-> TRUE]]
Lookup(denom_id, column_reqs, cols) ==
    IF denom_id \in DOMAIN column_reqs
        THEN [raised |-> FALSE, target |-> TargetGet(column_reqs[denom_id])]
    ELSE IF ColsHas(cols, denom_id)
        THEN [raised |-> FALSE, target |-> ColsGet(cols, denom_id)]
    ELSE [raised |-> TRUE, target |-> None]

\* The loop over the denominator tokens of one line: the targets dict
\* (descriptor -> relation) it builds, or KeyError raised when a token is found
\* neither in column_reqs nor in cols. The tokens are held stripped.
RECURSIVE Targets(_, _, _, _, _)
Targets(denominators, col_agg, column_reqs, cols, targets_dict) ==
    IF denominators = <<>> THEN [raised |-> FALSE, dict |-> targets_dict]
    ELSE LET denom_id == Head(denominators)
             rest == Tail(denominators)
             reltype == RelType(col_agg)
             found == Lookup(denom_id, column_reqs, cols)
         IN  IF denom_id = <<>>
                THEN Targets(rest, col_agg, column_reqs, cols, targets_dict)
             ELSE IF found.raised
                THEN [raised |-> TRUE, dict |-> targets_dict]
             ELSE Targets(rest, col_agg, column_reqs, cols,
                          DictUpdate(targets_dict,
                                     [k \in {found.target} |-> reltype]))

\* targets_dict.pop(None, None)
PopNone_keep(targets_dict) == targets_dict
PopNone(targets_dict) == [k \in DOMAIN targets_dict \ {None} |-> targets_dict[k]]

\* The body of the loop over the feed for one line: the line is skipped, or
\* it adds its descriptor to cols, or the lookup of a denominator raises.
ProcessLine(self, column_reqs, cols, line) ==
    IF ~StartsWith(line.marker, <<self.profile[1]>>)
        THEN [outcome |-> "skipped", cols |-> cols]
    ELSE IF ~StartsWith(line.tablename, self.tablename)
        THEN [outcome |-> "skipped", cols |-> cols]
    ELSE LET col_agg == ColAgg(self, line)
             built == Targets(line.denominators, col_agg, column_reqs, cols, <<>>)
         IN  IF built.raised
                THEN [outcome |-> "KeyError", cols |-> cols]
                ELSE [outcome |-> "added",
                      cols |-> ColsPut(cols,
                                  OBSColumn(line.col_id,
                                            IF col_agg \in {NoneStr, ""} THEN "sum" ELSE col_agg,
                                            PopNone(built.dict)))]

\* columns() on a whole feed: how the call ends, and the OrderedDict cols
\* it returns.
RECURSIVE ScanFeed(_, _, _, _)
ScanFeed(self, column_reqs, cols, lines) ==
    IF lines = <<>> THEN [pc |-> "returned", cols |-> cols]
    ELSE LET step == ProcessLine(self, column_reqs, cols, Head(lines))
         IN  IF step.outcome = "KeyError" THEN [pc |-> "KeyError", cols |-> step.cols]
             ELSE ScanFeed(self, column_reqs, step.cols, Tail(lines))

ColumnsResult(self, input_, lines) ==
    ScanFeed(self, ColumnReqs(self, input_, <<>>), <<>>, lines)

\* What a Columns task hands to the tasks that require it: its columns by id,
\* stored once the task has completed. One column per prerequisite group is
\* enough to bind a denominator to it.
ResolvedGroup(task, stored) ==
    [id \in {<<task.tablename, 1>>} |-> ColumnTarget(OBSColumn(id, "sum", <<>>), stored)]

\* The requests explored: the three-way part-table B10A, its sibling B10B, and
\* B02, the one table whose lines carry an aggregate, of the year 2011; and its
\* counterpart G02 of the year 2016.
ColumnsRequests ==
    {Columns(t, 2011, PROFILES[2011]) : t \in {Id.B10A, Id.B10B, Id.B02}}
        \cup {Columns(Id.G02, 2016, PROFILES[2016])}

\* The sequences that hold each element of the set S once.
Orderings(S) ==
    {o \in [1..Cardinality(S) -> S] : \A i, j \in 1..Cardinality(S) : i # j => o[i] # o[j]}

\* self.input() for the given keys, in the given order; the tasks of the keys
\* in unresolved have not completed.
InputOf(self, keys, unresolved) ==
    [i \in 1..Len(keys) |->
        [key |-> keys[i],
         value |-> ResolvedGroup(Columns(keys[i], self.year, self.profile),
                                 keys[i] \notin unresolved)]]

\* The inputs explored: every declared group resolved and supplied, in any
\* order; the declared order with one of the groups absent; the declared order
\* with one of the groups present but not resolved.
Without(seq, k) == SelectSeq(seq, LAMBDA x : x # k)
SuppliedInputs(self) ==
    {InputOf(self, o, {}) : o \in Orderings(Range(RequiresKeys(self)))}
        \cup {InputOf(self, Without(RequiresKeys(self), k), {}) :
                  k \in Range(RequiresKeys(self))}
        \cup {InputOf(self, RequiresKeys(self), {k}) : k \in Range(RequiresKeys(self))}

\* The feed lines explored for a request. A plain line passes both filters,
\* defines column 1 or 2 of the requested table and carries no aggregate; its
\* denominator cell names nothing, holds an empty token, or names the column
\* of a declared prerequisite group or column 1 of the table itself, alone or
\* the one after the other, or column 1 of the table itself after an empty
\* token.
DenominatorCells(self) ==
    LET own == <<self.tablename, 1>>
        reqs == {<<k, 1>> : k \in Range(RequiresKeys(self))}
        ids == reqs \cup {own}
    IN  {<<>>, << <<>> >>, << <<>>, own >>} \cup {<<d>> : d \in ids}
            \cup {<<d, own>> : d \in reqs}

\* The aggregates a line carries in column I besides the empty cell.
AggCells(self) == {"median", "average"}

\* A part-table next to the requested one (the base table for B02, which has
\* no parts).
Sibling(tab) ==
    IF tab = Id.B10A THEN Id.B10B
    ELSE IF tab = Id.B10B THEN Id.B10C
    ELSE Id.B01

PlainLines(self) ==
    {[marker |-> <<self.profile[1], "1">>, col_id |-> <<self.tablename, n>>,
      denominators |-> d, tablename |-> self.tablename, agg |-> ""] :
        n \in 1..2, d \in DenominatorCells(self)}

\* Lines of the requested table that carry an aggregate: column 2, whose
\* denominator is column 1 of the table itself or of the base table.
AggLines(self) ==
    {[marker |-> <<self.profile[1], "1">>, col_id |-> <<self.tablename, 2>>,
      denominators |-> <<d>>, tablename |-> self.tablename, agg |-> a] :
        d \in {<<self.tablename, 1>>, <<Id.B01, 1>>}, a \in AggCells(self)}

\* The other lines: one of the other profile, one of a sibling table, and one
\* of the requested table that defines an id a prerequisite group also holds.
OtherLines(self) ==
    {[marker |-> <<"X", "1">>, col_id |-> <<self.tablename, 1>>,
      denominators |-> <<>>, tablename |-> self.tablename, agg |-> ""],
     [marker |-> <<self.profile[1], "1">>, col_id |-> <<Sibling(self.tablename), 1>>,
      denominators |-> <<>>, tablename |-> Sibling(self.tablename), agg |-> ""],
     [marker |-> <<self.profile[1], "1">>, col_id |-> <<Id.B01, 1>>,
      denominators |-> <<>>, tablename |-> self.tablename, agg |-> "median"]}

FeedLines(self) == PlainLines(self) \cup AggLines(self) \cup OtherLines(self)

MaxLines == 2

\* columns() up to the loop over the feed: the supplied groups are merged into
\* column_reqs and cols is empty.
InitColumns ==
    /\ c_self \in ColumnsRequests
    /\ c_input \in SuppliedInputs(c_self)
    /\ c_reqs = ColumnReqs(c_self, c_input, <<>>)
    /\ c_lines = <<>>
    /\ c_cols = <<>>
    /\ c_pc = "scan"
    /\ c_xcp = <<>>
    /\ IdlePopulate /\ IdleRequires /\ IdleSched /\ IdleProject /\ IdleInterpolate /\ IdleRest

\* columns(): the loop body for the next line of the feed.
ReadLine ==
    /\ c_pc = "scan"
    /\ Len(c_lines) < MaxLines
    /\ \E line \in FeedLines(c_self) :
          LET step == ProcessLine(c_self, c_reqs, c_cols, line)
          IN  /\ c_lines' = Append(c_lines, line)
              /\ c_cols' = step.cols
              /\ c_pc' = IF step.outcome = "KeyError" THEN "KeyError" ELSE "scan"
    /\ UNCHANGED <<c_self, c_input, c_reqs, c_xcp>>
    /\ UNCHANGED <<popVars, reqVars, schedVars, xcpVars, mbVars, restVars>>

\* columns(): the feed is exhausted, cols is returned.
EndOfFeed ==
    /\ c_pc = "scan"
    /\ c_pc' = "returned"
    /\ UNCHANGED <<c_self, c_input, c_reqs, c_lines, c_cols, c_xcp>>
    /\ UNCHANGED <<popVars, reqVars, schedVars, xcpVars, mbVars, restVars>>

\* 'region_id', the key of the geography-id column.
REGION_ID == <<"r","e","g","i","o","n","_","i","d">>

\* d[key] = value on an OrderedDict held as a sequence of entries: a key
\* already held keeps its position.
DictPut(d, key, value) ==
    IF \E i \in 1..Len(d) : d[i].key = key
        THEN [i \in 1..Len(d) |-> IF d[i].key = key THEN [key |-> key, value |-> value] ELSE d[i]]
        ELSE Append(d, [key |-> key, value |-> value])

RECURSIVE DictPutAll(_, _)
DictPutAll(d, items) ==
    IF items = <<>> THEN d
    ELSE DictPutAll(DictPut(d, Head(items).key, Head(items).value), Tail(items))

\* XCP.columns: the geography-id column, then the entries of input_['meta'].
XCPColumns(input_) ==
    DictPutAll(DictPut(<<>>, REGION_ID, input_.geometa.geom_id), input_.meta)

\* input_['geometa']['geom_id']: the stored id column of the geography.
GeomIdTarget ==
    ColumnTarget([id |-> <<"g","e","o","m","_","i","d">>, type |-> "Text", weight |-> 0], TRUE)

\* input_['meta'] of the XCP task that requires a Columns task: the columns
\* the task returned, by id and in their order, each stored.
MetaOf(cols) ==
    [i \in 1..Len(cols) |-> [key |-> cols[i].id, value |-> ColumnTarget(cols[i], TRUE)]]

\* The columns returned are handed to the XCP task, whose columns() runs.
HandToXcp ==
    /\ c_pc = "returned"
    /\ c_pc' = "handed"
    /\ c_xcp' = XCPColumns([geometa |-> [geom_id |-> GeomIdTarget], meta |-> MetaOf(c_cols)])
    /\ UNCHANGED <<c_self, c_input, c_reqs, c_lines, c_cols>>
    /\ UNCHANGED <<popVars, reqVars, schedVars, xcpVars, mbVars, restVars>>

NextColumns == ReadLine \/ EndOfFeed \/ HandToXcp

SpecColumns == InitColumns /\ [][NextColumns]_vars

-----------------------------------------------------------------------------
(* The column lists of populate_general.                                   *)
(*                                                                         *)
(* Column names, and the names of states and resolutions where the code    *)
(* inspects or assembles their characters, are sequences of one-character  *)
(* strings.                                                                *)

\* str.endswith
EndsWith(s, suffix) ==
    /\ Len(s) >= Len(suffix)
    /\ SubSeq(s, Len(s) - Len(suffix) + 1, Len(s)) = suffix

\* str.replace: every occurrence of old, found from the left.
RECURSIVE Replace(_, _, _)
Replace(s, old, new) ==
    IF s = <<>> THEN <<>>
    ELSE IF StartsWith(s, old)
        THEN new \o Replace(SubSeq(s, Len(old) + 1, Len(s)), old, new)
    ELSE <<Head(s)>> \o Replace(Tail(s), old, new)

\* str.lower
LowerCase ==
    [A |-> "a", B |-> "b", C |-> "c", D |-> "d", E |-> "e", F |-> "f", G |-> "g",
     H |-> "h", I |-> "i", J |-> "j", K |-> "k", L |-> "l", M |-> "m", N |-> "n",
     O |-> "o", P |-> "p", Q |-> "q", R |-> "r", S |-> "s", T |-> "t", U |-> "u",
     V |-> "v", W |-> "w", X |-> "x", Y |-> "y", Z |-> "z"]
Lower(s) ==
    [i \in 1..Len(s) |-> IF s[i] \in DOMAIN LowerCase THEN LowerCase[s[i]] ELSE s[i]]

\* sub in s, for two strings
InStr(sub, s) ==
    \E i \in 0..(Len(s) - Len(sub)) : SubSeq(s, i + 1, i + Len(sub)) = sub

\* str(n) of a natural number, as '{}'.format(n) writes it
Digits == <<"0","1","2","3","4","5","6","7","8","9">>
RECURSIVE IntToStr(_)
IntToStr(n) ==
    IF n < 10 THEN <<Digits[n + 1]>>
    ELSE IntToStr(n \div 10) \o <<Digits[(n % 10) + 1]>>

\* The characters of the names of the states and of the resolutions.
Chars ==
    [NSW |-> <<"N","S","W">>, Vic |-> <<"V","i","c">>, Qld |-> <<"Q","l","d">>,
     SA |-> <<"S","A">>, WA |-> <<"W","A">>, Tas |-> <<"T","a","s">>,
     NT |-> <<"N","T">>, ACT |-> <<"A","C","T">>, OT |-> <<"O","T">>,
     RA |-> <<"R","A">>, SA4 |-> <<"S","A","4">>, SA3 |-> <<"S","A","3">>,
     SA2 |-> <<"S","A","2">>, SA1 |-> <<"S","A","1">>,
     GCCSA |-> <<"G","C","C","S","A">>, LGA |-> <<"L","G","A">>,
     SLA |-> <<"S","L","A">>, SSC |-> <<"S","S","C">>, POA |-> <<"P","O","A">>,
     CED |-> <<"C","E","D">>, SED |-> <<"S","E","D">>, STE |-> <<"S","T","E">>]

\* The string literals of the condition in populate_general.
aust == <<"a","u","s","t">>
vic == <<"v","i","c">>
wa == <<"w","a">>
ot == <<"o","t">>
nsw == <<"n","s","w">>
qld == <<"q","l","d">>
nt == <<"n","t">>
sa == <<"s","a">>
MEDIAN_RENT_WEEKLY_ ==
    <<"M","e","d","i","a","n","_","r","e","n","t","_","w","e","e","k","l","y","_">>
MEDIAN_RENT_WEEKLY ==
    <<"M","e","d","i","a","n","_","r","e","n","t","_","w","e","e","k","l","y">>

\* The condition under which the source table of a partition names the
\* measure without the trailing underscore. ('wa') is a string, so the test
\* for LGA and SLA is a substring test.
ShortNameApplies(res, state) ==
    LET st == Lower(Chars[state])
    IN  \/ res = "RA" /\ st # aust
        \/ res = "SA4" /\ st \in {vic, wa, ot}
        \/ res = "SA3" /\ st \in {vic, wa}
        \/ res = "SA2" /\ st \in {vic, wa, nsw}
        \/ res = "SA1" /\ st \in {vic, wa, qld, nt, sa, nsw}
        \/ res = "GCCSA" /\ st \in {vic, wa, ot}
        \/ res = "LGA" /\ InStr(st, wa)
        \/ res = "SLA" /\ InStr(st, wa)
        \/ res = "SSC" /\ st \in {vic, wa, qld, nt, sa, nsw}
        \/ res = "POA" /\ st \in {wa, qld, nsw}
        \/ res = "CED" /\ st \in {vic, wa}
        \/ res = "SED" /\ st \in {wa, ot}

\* colname after the if of the inner loop.
SourceName_always(self, state, colname) ==
    IF EndsWith(colname, MEDIAN_RENT_WEEKLY_)
        THEN Replace(colname, MEDIAN_RENT_WEEKLY_, MEDIAN_RENT_WEEKLY)
        ELSE colname
SourceName(self, state, colname) ==
    IF EndsWith(colname, MEDIAN_RENT_WEEKLY_) /\ ShortNameApplies(self.resolution, state)
        THEN Replace(colname, MEDIAN_RENT_WEEKLY_, MEDIAN_RENT_WEEKLY)
        ELSE colname

\* '"{}"::{}'.format(colname.replace(self.tablename + '_', ''), target.get(session).type):
\* the name between the quotes and the type of the cast.
SelectItem(self, state, colname, target) ==
    [name |-> Replace(SourceName(self, state, colname), self.tablename \o <<"_">>, <<>>),
     cast |-> TargetGet(target).type]

\* XCP._get_geoid
GetGeoid_fixed(self) == REGION_ID
GetGeoid(self) ==
    IF self.year = 2011 THEN REGION_ID
    ELSE Chars[self.resolution] \o <<"_","C","O","D","E","_">> \o IntToStr(self.year)

\* in_colnames of one partition: one item per entry of column_targets, then
\* item 0 replaced by '"{}"'.format(self._get_geoid()), which has no cast.
InColnames_append(self, state, column_targets) ==
    <<[name |-> GetGeoid(self), cast |-> ""]>> \o
        [i \in 1..Len(column_targets) |->
            SelectItem(self, state, column_targets[i].key, column_targets[i].value)]
InColnames(self, state, column_targets) ==
    LET items == [i \in 1..Len(column_targets) |->
                     SelectItem(self, state, column_targets[i].key, column_targets[i].value)]
    IN  [items EXCEPT ![1] = [name |-> GetGeoid(self), cast |-> ""]]

\* out_colnames
OutColnames(column_targets) ==
    [i \in 1..Len(column_targets) |-> Lower(column_targets[i].key)]

\* The XCP tasks explored: both years, the second table of the year (B02,
\* G02), and every resolution the condition names besides one it does not.
ProjectResolutions ==
    {"RA", "SA4", "SA3", "SA2", "SA1", "GCCSA", "LGA", "SLA", "SSC", "POA", "CED", "SED",
     "STE"}
ProjectRequests ==
    {[year |-> y, resolution |-> r, tablename |-> TABLES[y][2]] :
        y \in DOMAIN TABLES, r \in ProjectResolutions}

\* The resolved column sets explored: up to MaxCols of three columns of the
\* table, in any order: the measure with the trailing underscore, the same
\* name without it, and another column.
MaxCols == 2
ColumnNames(tab) ==
    {tab \o <<"_">> \o MEDIAN_RENT_WEEKLY_,
     tab \o <<"_">> \o MEDIAN_RENT_WEEKLY,
     tab \o <<"_","T","o","t","_","P">>}
Weights == {0, 5}
MetaSets(self) ==
    UNION {{[i \in 1..Len(names) |->
                [key |-> names[i],
                 value |-> ColumnTarget([OBSColumn(names[i], "sum", <<>>) EXCEPT !.weight = w[i]],
                                        TRUE)]] :
              w \in [1..Len(names) -> Weights]} :
           names \in UNION {Orderings(S) : S \in {T \in SUBSET ColumnNames(self.tablename) :
                                                      Cardinality(T) <= MaxCols}}}

InitProject ==
    /\ x_self \in ProjectRequests
    /\ x_meta \in MetaSets(x_self)
    /\ x_cols = <<>>
    /\ x_idx = 1
    /\ x_cmd = <<>>
    /\ x_pc = "columns"
    /\ x_upload = <<>>
    /\ IdlePopulate /\ IdleRequires /\ IdleSched /\ IdleColumns /\ IdleInterpolate /\ IdleRest

\* populate_general: column_targets = self.columns()
ProjectColumns ==
    /\ x_pc = "columns"
    /\ x_cols' = XCPColumns([geometa |-> [geom_id |-> GeomIdTarget], meta |-> x_meta])
    /\ x_pc' = "loop"
    /\ UNCHANGED <<x_self, x_meta, x_idx, x_cmd, x_upload>>
    /\ UNCHANGED <<popVars, reqVars, schedVars, colVars, mbVars, restVars>>

\* populate_general: the column lists of the statement of the next partition.
BuildStatement ==
    /\ x_pc = "loop"
    /\ x_idx <= Len(STATES)
    /\ x_cmd' = [state |-> STATES[x_idx],
                 out_colnames |-> OutColnames(x_cols),
                 in_colnames |-> InColnames(x_self, STATES[x_idx], x_cols)]
    /\ x_idx' = x_idx + 1
    /\ UNCHANGED <<x_self, x_meta, x_cols, x_pc, x_upload>>
    /\ UNCHANGED <<popVars, reqVars, schedVars, colVars, mbVars, restVars>>

\* populate_general: the loop over the partitions is over.
ProjectEnd ==
    /\ x_pc = "loop"
    /\ x_idx > Len(STATES)
    /\ x_pc' = "done"
    /\ UNCHANGED <<x_self, x_meta, x_cols, x_idx, x_cmd, x_upload>>
    /\ UNCHANGED <<popVars, reqVars, schedVars, colVars, mbVars, restVars>>

\* The one table name should_upload refuses whatever its columns.
NO_UPLOAD == "obs_ffebc3eb689edab4faa757f75ca02c65d7db7327"

\* A should_upload that hides a table as soon as one column has weight 0.
ShouldUpload_all(table) ==
    /\ table.tablename # NO_UPLOAD
    /\ \A i \in 1..Len(table.columns) : table.columns[i].column.weight > 0

\* should_upload (tasks/carto.py): the first column with a weight above 0
\* decides.
RECURSIVE ShouldUpload(_)
ShouldUpload(table) ==
    IF table.tablename = NO_UPLOAD THEN FALSE
    ELSE IF table.columns = <<>> THEN FALSE
    ELSE IF Head(table.columns).column.weight > 0 THEN TRUE
    ELSE ShouldUpload([table EXCEPT !.columns = Tail(table.columns)])

\* The output table, under either kind of name, is put to should_upload; its
\* columns are those of column_targets.
SyncDecision ==
    /\ x_pc = "done"
    /\ \E name \in {NO_UPLOAD, "obs_xcp"} :
          x_upload' = [tablename |-> name,
                       upload |-> ShouldUpload(
                           [tablename |-> name,
                            columns |-> [i \in 1..Len(x_cols) |->
                                            [column |-> x_cols[i].value.column]]])]
    /\ x_pc' = "synced"
    /\ UNCHANGED <<x_self, x_meta, x_cols, x_idx, x_cmd>>
    /\ UNCHANGED <<popVars, reqVars, schedVars, colVars, mbVars, restVars>>

NextProject == ProjectColumns \/ BuildStatement \/ ProjectEnd \/ SyncDecision

SpecProject == InitProject /\ [][NextProject]_vars

-----------------------------------------------------------------------------
(* XCP.requires, and the scheduling of an XCP task with everything it      *)
(* requires. The tag tasks of Columns.requires and the download each        *)
(* ImportData requires are left out.                                       *)

\* The tasks XCP.requires names, told apart by their parameters.
XCP(tab, y, res) == [tablename |-> tab, year |-> y, resolution |-> res]
Geography(res, y) == [geography |-> res, year |-> y]
GeographyColumns(res, y) == [geography_columns |-> res, year |-> y]
ImportData(res, state, prof, tab, y) ==
    [resolution |-> res, state |-> state, profile |-> prof, tablename |-> tab, year |-> y]

\* requirements['data'] that reads the source partitions whatever the tier.
XCPRequiresData_import(self) ==
    [i \in 1..Len(STATES) |->
        [key |-> STATES[i],
         task |-> ImportData(self.resolution, STATES[i], PROFILES[self.year],
                             self.tablename, self.year)]]

\* requirements['data']: for the finest tier the XCP task of the parent tier,
\* held here under the key of that tier; for any other tier import_data, one
\* ImportData task per state, keyed by the state in the order of STATES.
XCPRequiresData(self) ==
    IF self.resolution = GEO_MB
        THEN <<[key |-> GEO_SA1, task |-> XCP(self.tablename, self.year, GEO_SA1)]>>
        ELSE [i \in 1..Len(STATES) |->
                 [key |-> STATES[i],
                  task |-> ImportData(self.resolution, STATES[i], PROFILES[self.year],
                                      self.tablename, self.year)]]

\* XCP.requires: every task of the returned dictionary.
XCPRequiresTasks(self) ==
    {Geography(self.resolution, self.year),
     GeographyColumns(self.resolution, self.year),
     Columns(self.tablename, self.year, PROFILES[self.year])}
        \cup (IF self.resolution = GEO_MB THEN {Geography(GEO_SA1, self.year)} ELSE {})
        \cup {XCPRequiresData(self)[i].task : i \in 1..Len(XCPRequiresData(self))}

IsXCP(task) == DOMAIN task = {"tablename", "year", "resolution"}
IsColumns(task) == DOMAIN task = {"tablename", "year", "profile"}

\* requires() of any task of the graph.
TaskRequires(task) ==
    IF IsXCP(task) THEN XCPRequiresTasks(task)
    ELSE IF IsColumns(task) THEN RequiresTasks(task)
    ELSE {}

\* The tasks reached from a set of tasks through requires().
RECURSIVE RequiresClosure(_)
RequiresClosure(tasks) ==
    LET more == tasks \cup UNION {TaskRequires(t) : t \in tasks}
    IN  IF more = tasks THEN tasks ELSE RequiresClosure(more)

\* The graph scheduled: the finest-tier table of the base table of either
\* year, with everything it requires.
InitXcpSched ==
    /\ \E y \in DOMAIN TABLES :
          status = [task \in RequiresClosure({XCP(Id.B01, y, GEO_MB)}) |-> "pending"]
    /\ IdlePopulate /\ IdleRequires /\ IdleColumns /\ IdleProject /\ IdleInterpolate /\ IdleRest

\* The worker starts a pending task whose requirements are all complete; it
\* runs one task at a time.
XcpTaskStart ==
    \E task \in DOMAIN status :
        /\ status[task] = "pending"
        /\ \A other \in DOMAIN status : status[other] # "running"
        /\ \A r \in TaskRequires(task) : r \in DOMAIN status /\ status[r] = "done"
        /\ status' = [status EXCEPT ![task] = "running"]
        /\ UNCHANGED <<popVars, reqVars, colVars, xcpVars, mbVars, restVars>>

\* The running task completes.
XcpTaskComplete ==
    \E task \in DOMAIN status :
        /\ status[task] = "running"
        /\ status' = [status EXCEPT ![task] = "done"]
        /\ UNCHANGED <<popVars, reqVars, colVars, xcpVars, mbVars, restVars>>

NextXcpSched == XcpTaskStart \/ XcpTaskComplete

SpecXcpSched == InitXcpSched /\ [][NextXcpSched]_vars

-----------------------------------------------------------------------------
(* populate_mb: the statement that derives the table of the finest tier    *)
(* from the table of the parent tier.                                      *)
(*                                                                         *)
(* A value with two decimals is held as its number of hundredths. Areas    *)
(* and the values of the parent table are whole numbers; the product of    *)
(* float8 is taken as exact.                                               *)

\* The nearest whole number to num / den (den > 0), halves away from zero, as
\* round() of a numeric does.
RoundDiv(num, den) ==
    IF num >= 0 THEN (2 * num + den) \div (2 * den)
    ELSE 0 - ((2 * (0 - num) + den) \div (2 * den))

\* An expression that rounds the ratio of the areas before the product.
Interpolate_roundedRatio(value, mbArea, sa1Area) == value * RoundDiv(100 * mbArea, sa1Area)

\* round(cast(float8 (ic * (ST_Area(mb.the_geom)/ST_Area(sa1geo.the_geom))) as numeric), 2),
\* in hundredths.
Interpolate(value, mbArea, sa1Area) == RoundDiv(100 * value * mbArea, sa1Area)

\* A select list that joins the parent table on the child's own id.
MbJoin_ownId(mb, sa1geo, sa1data) ==
    /\ mb.geom_id = sa1geo.geom_id
    /\ mb.geom_id = sa1data.region_id

\* The ON conditions of the two inner joins.
MbJoin(mb, sa1geo, sa1data) ==
    /\ mb.parent_id = sa1geo.geom_id
    /\ mb.parent_id = sa1data.region_id

\* in_colnames of populate_mb: 'mb.geom_id as region_id', then one
\* interpolated item for every key of column_targets other than 'region_id',
\* which reads and names the lower-cased key.
RECURSIVE MbInColnames(_)
MbInColnames(column_targets) ==
    IF column_targets = <<>> THEN <<[expr |-> "mb.geom_id", as |-> REGION_ID]>>
    ELSE LET front == SubSeq(column_targets, 1, Len(column_targets) - 1)
             ic == column_targets[Len(column_targets)].key
         IN  IF ic # REGION_ID
                THEN Append(MbInColnames(front),
                            [expr |-> "interpolate", column |-> Lower(ic), as |-> Lower(ic)])
                ELSE MbInColnames(front)

\* The value of one item of the select list on one row of the join.
MbEval(item, mb, sa1geo, sa1data) ==
    IF item.expr = "mb.geom_id" THEN mb.geom_id
    ELSE Interpolate(sa1data.cols[item.column], mb.area, sa1geo.area)

\* The rows insert_query inserts: one per row of the join, the i-th item
\* of the select list under the i-th output column.
MbInserted(stmt, mb_rows, sa1geo_rows, sa1data_rows) ==
    {[i \in 1..Len(stmt.out_colnames) |-> MbEval(stmt.in_colnames[i], mb, sa1geo, sa1data)] :
        <<mb, sa1geo, sa1data>> \in
            {j \in mb_rows \X sa1geo_rows \X sa1data_rows : MbJoin(j[1], j[2], j[3])}}

\* The tables explored. The finest tier has up to two geometries, each with
\* an area and a parent id that names one of two parent geometries or none
\* that exists; the parent tier has either, both or none of its two
\* geometries, and its output table a row for either, both or none of them.
\* Ids are unique in each table.
MaxValue == 2
MbColumnNames ==
    <<<<"B","0","1","_","T","o","t","_","P">>, <<"B","0","1","_","T","o","t","_","M">>>>
MbMeta ==
    [i \in 1..Len(MbColumnNames) |->
        [key |-> MbColumnNames[i],
         value |-> ColumnTarget(OBSColumn(MbColumnNames[i], "sum", <<>>), TRUE)]]
MbTables ==
    UNION {{{[geom_id |-> id, parent_id |-> f[id][1], area |-> f[id][2]] : id \in ids} :
               f \in [ids -> {"sa1a", "sa1b", "sa1x"} \X {1, 2}]} :
           ids \in SUBSET {"mb1", "mb2"}}
Sa1GeoTables == SUBSET {[geom_id |-> "sa1a", area |-> 3], [geom_id |-> "sa1b", area |-> 8]}
Sa1DataTables ==
    UNION {{{[region_id |-> id, cols |-> f[id]] : id \in ids} :
               f \in [ids -> [{Lower(MbColumnNames[i]) : i \in 1..Len(MbColumnNames)}
                                  -> 0..MaxValue]]} :
           ids \in SUBSET {"sa1a", "sa1b"}}

InitInterpolate ==
    /\ m_cols = <<>>
    /\ m_mb \in MbTables
    /\ m_sa1geo \in Sa1GeoTables
    /\ m_sa1data \in Sa1DataTables
    /\ m_stmt = <<>>
    /\ m_out = {}
    /\ m_pc = "columns"
    /\ IdlePopulate /\ IdleRequires /\ IdleSched /\ IdleColumns /\ IdleProject /\ IdleRest

\* populate_mb: column_targets = self.columns(), then the two column lists.
MbBuildStatement ==
    /\ m_pc = "columns"
    /\ LET column_targets == XCPColumns([geometa |-> [geom_id |-> GeomIdTarget],
                                         meta |-> MbMeta])
       IN  /\ m_cols' = column_targets
           /\ m_stmt' = [out_colnames |-> OutColnames(column_targets),
                         in_colnames |-> MbInColnames(column_targets)]
    /\ m_pc' = "built"
    /\ UNCHANGED <<m_mb, m_sa1geo, m_sa1data, m_out>>
    /\ UNCHANGED <<popVars, reqVars, schedVars, colVars, xcpVars, restVars>>

\* populate_mb: session.execute(insert_query), the statement completing.
MbExecute ==
    /\ m_pc = "built"
    /\ m_out' = MbInserted(m_stmt, m_mb, m_sa1geo, m_sa1data)
    /\ m_pc' = "executed"
    /\ UNCHANGED <<m_cols, m_mb, m_sa1geo, m_sa1data, m_stmt>>
    /\ UNCHANGED <<popVars, reqVars, schedVars, colVars, xcpVars, restVars>>

NextInterpolate == MbBuildStatement \/ MbExecute

SpecInterpolate == InitInterpolate /\ [][NextInterpolate]_vars

-----------------------------------------------------------------------------
(* XCPAllTables.requires (data.py:459-465).                                *)
(* `for table in TABLES` iterates the dict TABLES itself, that is its      *)
(* keys (the census years), and yields one XCP per key with the key as     *)
(* tablename.  The order in which a dict hands out its keys depends on     *)
(* the interpreter, so the loop takes the keys in any order.  A yielded    *)
(* tablename is held as the text of the key, the form in which the         *)
(* Parameter writes its value, so that it can be compared with table ids.  *)

XCPAllTables(y, res) == [year |-> y, resolution |-> res]

\* What `for table in TABLES` iterates over.
TablesKeys == DOMAIN TABLES

WrapperResolutions == ProjectResolutions \cup {GEO_MB}

InitWrapper ==
    /\ w_self \in {XCPAllTables(y, r) : y \in DOMAIN TABLES, r \in WrapperResolutions}
    /\ w_yielded = <<>>
    /\ w_pc = "loop"
    /\ IdlePopulate /\ IdleRequires /\ IdleSched /\ IdleColumns /\ IdleProject
    /\ IdleInterpolate /\ IdleFilter /\ IdlePurge /\ IdleMeta

\* One turn of the loop: yield XCP(resolution, tablename=table, year).
WrapperYield ==
    /\ w_pc = "loop"
    /\ \E table \in TablesKeys :
        /\ \A i \in 1..Len(w_yielded) : w_yielded[i].tablename # IntToStr(table)
        /\ w_yielded' =
               Append(w_yielded, XCP(IntToStr(table), w_self.year, w_self.resolution))
    /\ UNCHANGED <<w_self, w_pc>>
    /\ UNCHANGED <<auVars, filterVars, purgeVars, metaVars>>

\* The keys are exhausted: the generator ends.
WrapperEnd ==
    /\ w_pc = "loop"
    /\ Len(w_yielded) = Cardinality(TablesKeys)
    /\ w_pc' = "done"
    /\ UNCHANGED <<w_self, w_yielded>>
    /\ UNCHANGED <<auVars, filterVars, purgeVars, metaVars>>

NextWrapper == WrapperYield \/ WrapperEnd

SpecWrapper == InitWrapper /\ [][NextWrapper]_vars

-----------------------------------------------------------------------------
(* ColumnsDeclarations (tasks/us/census/columns.py).                       *)
(* A JSON object is a function from its keys to its values; a JSON text    *)
(* is the sequence of its key/value pairs as written, which json.loads     *)
(* turns into an object (of a key written twice the last value stays).     *)
(* self._columns maps a column id to its declaration, an object with the   *)
(* optional keys "conditions" and "exceptions", each a list of             *)
(* requirements.  An OrderedDict is the sequence of its items.  The file   *)
(* is Python 2 (dict.iteritems).                                           *)

CONDITIONS == "conditions"
EXCEPTIONS == "exceptions"

\* json.loads(parameters)
JsonLoads(text) ==
    [k \in {text[i][1] : i \in 1..Len(text)} |->
        LET last == CHOOSE i \in 1..Len(text) :
                        /\ text[i][1] = k
                        /\ \A j \in (i + 1)..Len(text) : text[j][1] # k
        IN  text[last][2]]

\* The inner loop of _check_requirements where a key the requirement lacks
\* counts against it (no try/except around requirement[id]).
RequirementCheck_strict(parameters, requirement) ==
    \A id \in DOMAIN parameters :
        id \in DOMAIN requirement /\ requirement[id] = parameters[id]

\* The inner loop of _check_requirements: check stays True unless some
\* parameter differs from the requirement's value for the same key; a key
\* the requirement lacks raises KeyError, which is passed over.
RequirementCheck(parameters, requirement) ==
    \A id \in DOMAIN parameters :
        id \in DOMAIN requirement => requirement[id] = parameters[id]

\* _check_requirements(parameters, requirements), from requirement i on.
RECURSIVE CheckRequirementsFrom(_, _, _)
CheckRequirementsFrom(parameters, requirements, i) ==
    IF i > Len(requirements) THEN FALSE
    ELSE IF RequirementCheck(parameters, requirements[i]) THEN TRUE
    ELSE CheckRequirementsFrom(parameters, requirements, i + 1)

CheckRequirements(parameters, requirements) ==
    CheckRequirementsFrom(parameters, requirements, 1)

\* The truth value of self._find_column(colid).get(key): None when the key
\* is absent and the empty list are both false.
Declared(columns, colid, key) ==
    key \in DOMAIN columns[colid] /\ columns[colid][key] # <<>>

\* _is_column_filtered(colid, parameters)
IsColumnFiltered(columns, colid, parameters) ==
    LET params == JsonLoads(parameters)
    IN  IF /\ Declared(columns, colid, CONDITIONS)
           /\ ~CheckRequirements(params, columns[colid][CONDITIONS])
        THEN FALSE
        ELSE IF /\ Declared(columns, colid, EXCEPTIONS)
                /\ CheckRequirements(params, columns[colid][EXCEPTIONS])
        THEN FALSE
        ELSE TRUE

\* filter_columns(columns, parameters): the items whose key passes, in the
\* order of columns.items().
RECURSIVE FilterColumnsFrom(_, _, _, _)
FilterColumnsFrom(decl, columns, parameters, i) ==
    IF i > Len(columns) THEN <<>>
    ELSE (IF IsColumnFiltered(decl, columns[i][1], parameters)
          THEN <<columns[i]>> ELSE <<>>)
         \o FilterColumnsFrom(decl, columns, parameters, i + 1)

FilterColumns(decl, columns, parameters) == FilterColumnsFrom(decl, columns, parameters, 1)

\* Requirements a declaration is built from, and the longest list of them.
MaxReqs == 2
ParamKeys == {"year", "geo"}
ParamValues == {1, 2}
Requirements ==
    { [k \in {} |-> 1],
      [k \in {"year"} |-> 1],
      [k \in {"year", "geo"} |-> IF k = "year" THEN 2 ELSE 1] }
RequirementLists == UNION {[1..n -> Requirements] : n \in 0..MaxReqs}

\* The declarations of one column: either key absent, or a list.
Declarations ==
    UNION { [keys -> RequirementLists] : keys \in SUBSET {CONDITIONS, EXCEPTIONS} }

\* Parameter texts: no pair, one pair, or two pairs (the same key twice included).
ParamPairs == ParamKeys \X ParamValues
ParamTexts ==
    {<<>>} \cup {<<p>> : p \in ParamPairs} \cup {<<p, q>> : p, q \in ParamPairs}

\* The columns handed to filter_columns: the three declared columns in any order.
ColumnItems == {<<"c1", "total">>, <<"c2", "male">>, <<"c3", "female">>}
ColumnDicts ==
    {<<a, b, c>> : a, b, c \in ColumnItems} \cap
        {s \in [1..3 -> ColumnItems] : Cardinality(Range(s)) = 3}

InitFilter ==
    /\ \E d \in Declarations :
         f_decl =
             [c \in {"c1", "c2", "c3"} |->
                 CASE c = "c1" -> d
                   [] c = "c2" -> [k \in {} |-> <<>>]
                   [] c = "c3" ->
                        [k \in {CONDITIONS, EXCEPTIONS} |->
                            IF k = CONDITIONS THEN <<[j \in {"year"} |-> 1]>>
                                              ELSE <<[j \in {"geo"} |-> 2]>>]]
    /\ f_columns \in ColumnDicts
    /\ f_params \in ParamTexts
    /\ f_kept = <<>>
    /\ f_pc = "call"
    /\ IdlePopulate /\ IdleRequires /\ IdleSched /\ IdleColumns /\ IdleProject
    /\ IdleInterpolate /\ IdleWrapper /\ IdlePurge /\ IdleMeta

\* filter_columns(columns, parameters)
Filter ==
    /\ f_pc = "call"
    /\ f_kept' = FilterColumns(f_decl, f_columns, f_params)
    /\ f_pc' = "filtered"
    /\ UNCHANGED <<f_decl, f_columns, f_params>>
    /\ UNCHANGED <<auVars, wrapVars, purgeVars, metaVars>>

\* filter_columns(kept, parameters): the returned set is filtered again.
FilterAgain ==
    /\ f_pc = "filtered"
    /\ f_columns' = f_kept
    /\ f_kept' = FilterColumns(f_decl, f_kept, f_params)
    /\ f_pc' = "refiltered"
    /\ UNCHANGED <<f_decl, f_params>>
    /\ UNCHANGED <<auVars, wrapVars, purgeVars, metaVars>>

NextFilter == Filter \/ FilterAgain

SpecFilter == InitFilter /\ [][NextFilter]_vars

-----------------------------------------------------------------------------
(* PurgeUndocumentedTables.run (tasks/carto.py:700-725).                   *)
(* A table of the schema observatory is a record of its name, its number   *)
(* of rows (the COUNT query) and whether obs_table has an entry with its    *)
(* tablename.  resp lists the names of the schema's tables in the order    *)
(* the database returns them.  Every DROP TABLE is committed at once, so   *)
(* each turn of the loop is a step of its own.                             *)

META_TABLES ==
    <<"obs_table", "obs_column_table", "obs_column", "obs_column_to_column",
      "obs_column_tag", "obs_tag", "obs_dump_version">>

\* The tuple of names the loop passes over (carto.py:708-709).
PurgeSkipped ==
    <<"obs_table", "obs_column_table", "obs_column", "obs_tag", "obs_column_to_column",
      "obs_column_tag">>

Table(name, rows, documented) == [name |-> name, rows |-> rows, documented |-> documented]

RowCounts == {0, 1, 2}

\* Schemas: obs_table itself, obs_dump_version or not, and up to two data tables.
Schemas ==
    { {Table("obs_table", 2, FALSE)} \cup dump \cup a \cup b :
        dump \in {{}} \cup {{Table("obs_dump_version", n, FALSE)} : n \in RowCounts},
        a \in {{}} \cup {{Table("obs_a1", n, d)} : n \in RowCounts, d \in BOOLEAN},
        b \in {{}} \cup {{Table("obs_b2", n, d)} : n \in RowCounts, d \in BOOLEAN} }

\* The orders in which the names of a schema can be listed.
Listings(tables) ==
    LET names == {t.name : t \in tables}
    IN  {s \in [1..Cardinality(names) -> names] : Range(s) = names}

TableNamed(tables, name) == CHOOSE t \in tables : t.name = name

InitPurge ==
    /\ p_tables \in Schemas
    /\ p_resp \in Listings(p_tables)
    /\ p_idx = 1
    /\ p_dropped = {}
    /\ p_pc = "run"
    /\ IdlePopulate /\ IdleRequires /\ IdleSched /\ IdleColumns /\ IdleProject
    /\ IdleInterpolate /\ IdleWrapper /\ IdleFilter /\ IdleMeta

\* `if tablename in (...): continue`
PurgeSkip ==
    /\ p_pc = "run" /\ p_idx <= Len(p_resp)
    /\ p_resp[p_idx] \in Range(PurgeSkipped)
    /\ p_idx' = p_idx + 1
    /\ UNCHANGED <<p_resp, p_tables, p_dropped, p_pc>>
    /\ UNCHANGED <<auVars, wrapVars, filterVars, metaVars>>

\* The table has an entry in obs_table: nothing is done.
PurgeKeep ==
    /\ p_pc = "run" /\ p_idx <= Len(p_resp)
    /\ p_resp[p_idx] \notin Range(PurgeSkipped)
    /\ TableNamed(p_tables, p_resp[p_idx]).documented
    /\ p_idx' = p_idx + 1
    /\ UNCHANGED <<p_resp, p_tables, p_dropped, p_pc>>
    /\ UNCHANGED <<auVars, wrapVars, filterVars, metaVars>>

\* No entry and cnt == 0: DROP TABLE ... CASCADE, then commit.
PurgeDrop ==
    /\ p_pc = "run" /\ p_idx <= Len(p_resp)
    /\ p_resp[p_idx] \notin Range(PurgeSkipped)
    /\ LET t == TableNamed(p_tables, p_resp[p_idx])
       IN  /\ ~t.documented
           /\ t.rows = 0
           /\ p_tables' = p_tables \ {t}
           /\ p_dropped' = p_dropped \cup {t}
    /\ p_idx' = p_idx + 1
    /\ UNCHANGED <<p_resp, p_pc>>
    /\ UNCHANGED <<auVars, wrapVars, filterVars, metaVars>>

\* No entry and cnt # 0: raise Exception("Will not automatically drop ...").
PurgeRaise ==
    /\ p_pc = "run" /\ p_idx <= Len(p_resp)
    /\ p_resp[p_idx] \notin Range(PurgeSkipped)
    /\ LET t == TableNamed(p_tables, p_resp[p_idx])
       IN  ~t.documented /\ t.rows # 0
    /\ p_pc' = "raised"
    /\ UNCHANGED <<p_resp, p_idx, p_tables, p_dropped>>
    /\ UNCHANGED <<auVars, wrapVars, filterVars, metaVars>>

\* resp is exhausted: run returns.
PurgeReturn ==
    /\ p_pc = "run" /\ p_idx > Len(p_resp)
    /\ p_pc' = "returned"
    /\ UNCHANGED <<p_resp, p_idx, p_tables, p_dropped>>
    /\ UNCHANGED <<auVars, wrapVars, filterVars, metaVars>>

NextPurge == PurgeSkip \/ PurgeKeep \/ PurgeDrop \/ PurgeRaise \/ PurgeReturn

SpecPurge == InitPurge /\ [][NextPurge]_vars

-----------------------------------------------------------------------------
(* OBSMetaToCarto (tasks/carto.py:1016-1030), a task created with force    *)
(* set (OBSMeta.force, default True).  CartoDBTarget and import_api come    *)
(* from tasks.util: the target exists when the remote account has a table  *)
(* obs_meta, remove() deletes that table, and the import creates it.       *)
(* o_remote records who made the table that is there: "" when there is     *)
(* none, "other" for a table found at the start, "run" for the table this  *)
(* task's run() imported.                                                  *)

\* The longest sequence of calls followed.
MaxCalls == 6

\* CartoDBTarget(tablename='obs_meta').exists()
TargetExists == o_remote # ""

\* import_api({'table_name': 'obs_meta', ...}): the table made by run().
ImportApi == "run"

InitMeta ==
    /\ o_force = TRUE
    /\ o_remote \in {"", "other"}
    /\ o_calls = <<>>
    /\ o_removed = <<>>
    /\ IdlePopulate /\ IdleRequires /\ IdleSched /\ IdleColumns /\ IdleProject
    /\ IdleInterpolate /\ IdleWrapper /\ IdleFilter /\ IdlePurge

\* output(): `if self.force and target.exists(): target.remove(); self.force = False`
MetaOutput ==
    /\ Len(o_calls) < MaxCalls
    /\ IF o_force /\ TargetExists
       THEN /\ o_removed' = Append(o_removed, o_remote)
            /\ o_remote' = ""
            /\ o_force' = FALSE
       ELSE UNCHANGED <<o_removed, o_remote, o_force>>
    /\ o_calls' = Append(o_calls, "output")
    /\ UNCHANGED <<auVars, wrapVars, filterVars, purgeVars>>

\* run(): import_api(...) creates the remote table.
MetaRun ==
    /\ Len(o_calls) < MaxCalls
    /\ o_remote' = ImportApi
    /\ o_calls' = Append(o_calls, "run")
    /\ UNCHANGED <<o_force, o_removed>>
    /\ UNCHANGED <<auVars, wrapVars, filterVars, purgeVars>>

NextMeta == MetaOutput \/ MetaRun

SpecMeta == InitMeta /\ [][NextMeta]_vars

-----------------------------------------------------------------------------
(* Properties of XCP.populate.                                             *)

PopulateEnded == pc \in {"returned", "raised"}
GeneralRun == PopulateStrategy(resolution) = "general"
MbRun == PopulateStrategy(resolution) = "mb"

\* The partitions whose statement raised, from the recorded outcomes.
FailedPartitions == {s \in Range(STATES) : FALSE \in Range(attempts[s])}

\* C1: when populate_general ends and exactly one partition failed, the output
\* table still holds the rows of every other partition, whether it ran before
\* or after the failing one.
C1_SiblingRowsKept ==
    (PopulateEnded /\ GeneralRun /\ Cardinality(FailedPartitions) = 1)
        => \A s \in Range(STATES) \ FailedPartitions : Rows(s) \subseteq output

\* C2: within one call of populate_general no partition is attempted more than
\* once, and when the call ends every partition has been attempted exactly
\* once, whichever partitions failed.
C2_EachPartitionAttemptedOnce ==
    /\ \A s \in Range(STATES) : Len(attempts[s]) <= 1
    /\ (PopulateEnded /\ GeneralRun) => \A s \in Range(STATES) : Len(attempts[s]) = 1

\* C2 witness: the call ended after the first partition and a later one failed.
C2_Witness ==
    /\ pc = "raised"
    /\ attempts[STATES[1]] = <<FALSE>>
    /\ attempts[STATES[2]] = <<TRUE>>
    /\ Cardinality(FailedPartitions) >= 2

\* C3: populate_general raises if and only if some partition failed; it raises
\* one error, after every partition has been attempted, and the error names
\* the resolution, the table id and exactly the partitions that failed.
C3_AggregateError ==
    /\ Len(raised) <= 1
    /\ (PopulateEnded /\ GeneralRun) => (pc = "raised" <=> FailedPartitions # {})
    /\ (pc = "raised") <=> (raised # <<>>)
    /\ raised # <<>> =>
          /\ \A s \in Range(STATES) : attempts[s] # <<>>
          /\ Range(raised[1].states) = FailedPartitions
          /\ Len(raised[1].states) = Cardinality(FailedPartitions)
          /\ raised[1].resolution = resolution
          /\ raised[1].tablename = tablename

\* C3 witness: an error raised for two failed partitions out of nine.
C3_Witness ==
    /\ pc = "raised"
    /\ FailedPartitions = {"Vic", "OT"}

\* C4: every error that leaves populate carries the year, the resolution and
\* the table id of the request.
C4_ErrorCarriesRequest ==
    \A i \in 1..Len(raised) :
        /\ {"year", "resolution", "tablename"} \subseteq DOMAIN raised[i]
        /\ raised[i].year = year
        /\ raised[i].resolution = resolution
        /\ raised[i].tablename = tablename

\* C5: once the interpolation statement of populate_mb has failed, populate
\* ends by raising, and raises once; it never returns normally.
C5_InterpolationFailurePropagates ==
    (MbRun /\ stmt_failed) => (pc = "raised" /\ Len(raised) = 1)

\* C6: when populate_mb has ended, the output table holds none of the rows of
\* the interpolation statement if the statement failed, and all of them if it
\* did not.
C6_InterpolationAllOrNothing ==
    (MbRun /\ pc = "returned") =>
        IF stmt_failed THEN output \cap Rows(GEO_MB) = {}
                       ELSE Rows(GEO_MB) \subseteq output

\* C6 witness: populate_mb has ended after a failed interpolation statement.
C6_Witness == MbRun /\ pc = "returned" /\ stmt_failed /\ attempts[GEO_MB] = <<FALSE>>

-----------------------------------------------------------------------------
(* Properties of Columns.requires and of the scheduling it induces.        *)

\* The prerequisites the design states for the scheduled tables: the base table
\* for every other table, B17B for B02, the sibling parts of the three-way
\* family, and the shared table of each range rule.
StatedPrerequisites(tab) ==
    (IF tab # Id.B01 THEN {Id.B01} ELSE {})
        \cup (IF tab = Id.B02 THEN {Id.B17B} ELSE {})
        \cup (IF tab = Id.B10A THEN {Id.B10B, Id.B10C} ELSE {})
        \cup (IF tab = Id.B10B THEN {Id.B10C} ELSE {})
        \cup (IF tab = Id.B26 THEN {Id.B25} ELSE {})
        \cup (IF tab = Id.B31 THEN {Id.B29} ELSE {})

\* C8: a Columns task has left "pending" only if the task of every key its
\* requires() declares, and of every prerequisite the design states for its
\* table, has completed.
C8_ResolutionAfterPrerequisites ==
    \A task \in DOMAIN status :
        status[task] # "pending" =>
            \A k \in Range(RequiresKeys(task)) \cup StatedPrerequisites(task.tablename) :
                LET r == Columns(k, task.year, task.profile) IN
                r \in DOMAIN status /\ status[r] = "done"

\* C8 witness: the three-way table B10A is being resolved while other tables
\* are still pending.
C8_Witness ==
    \E task \in DOMAIN status :
        /\ task.tablename = Id.B10A
        /\ status[task] = "running"
        /\ \E other \in DOMAIN status : status[other] = "pending"

\* C9: no Columns task is reachable from itself through requires(): a chain of
\* prerequisites never returns to a task it has passed, so it ends.
C9_Acyclic ==
    \A i, j \in 1..Len(path) : i < j => path[i] # path[j]

\* C9 witness: the longest chain, from B43A through its parts to the base
\* table, which requires nothing.
C9_Witness ==
    /\ Len(path) = 5
    /\ path[1].tablename = Id.B43A
    /\ path[5].tablename = Id.B01
    /\ RequiresTasks(path[5]) = {}

-----------------------------------------------------------------------------
(* Properties of Columns.columns.                                          *)

\* The groups input_ holds, and those among them whose task has not completed.
SuppliedKeys == {c_input[i].key : i \in 1..Len(c_input)}
UnresolvedKeys ==
    {c_input[i].key : i \in {j \in 1..Len(c_input) :
                                \E id \in DOMAIN c_input[j].value : ~c_input[j].value[id].stored}}
AllSupplied ==
    /\ Range(RequiresKeys(c_self)) \subseteq SuppliedKeys
    /\ UnresolvedKeys = {}

\* C7: columns() returns a column set only if every prerequisite group
\* requires() declares for the table was resolved and supplied; with a
\* declared group absent or unresolved the call ends in an error.
C7_MissingPrerequisiteRaises ==
    (c_pc \in {"returned", "KeyError"} /\ ~AllSupplied) => c_pc = "KeyError"

\* C10: for the three-way part-table B10A with all its declared groups
\* supplied, columns() returns, and it returns the same columns whatever the
\* order in which the groups are held by input_.
C10_AnyOrderSucceeds ==
    (c_pc \in {"returned", "KeyError"} /\ c_self.tablename = Id.B10A /\ AllSupplied) =>
        /\ c_pc = "returned"
        /\ \A o \in Orderings(SuppliedKeys) :
              ColumnsResult(c_self, InputOf(c_self, o, {}), c_lines)
                  = [pc |-> "returned", cols |-> c_cols]

\* The part of C10 that does not depend on the lookup error: the way columns()
\* ends and the columns it has built are the same for every order of the
\* groups input_ holds.
OrderIndependent ==
    (c_pc \in {"returned", "KeyError"}) =>
        \A o \in Orderings(SuppliedKeys) :
            ColumnsResult(c_self, InputOf(c_self, o, UnresolvedKeys), c_lines)
                = [pc |-> c_pc, cols |-> c_cols]


\* The line the loop body has just handled, whether it passes the two filters
\* at the head of the loop, and the non-empty tokens of its denominator cell.
LastLine == c_lines[Len(c_lines)]
PassesFilters(self, line) ==
    /\ line.marker # <<>> /\ line.marker[1] = self.profile[1]
    /\ \A i \in 1..Len(self.tablename) :
          i <= Len(line.tablename) /\ line.tablename[i] = self.tablename[i]
Tokens(line) == Range(line.denominators) \ {<<>>}

\* The descriptors the prerequisite groups hold, by id, and the ids an earlier
\* line of the scan has defined.
PrerequisiteIds == DOMAIN c_reqs
StoredPrerequisite(id) == id \in DOMAIN c_reqs /\ c_reqs[id].stored
EarlierIds(cols) == {cols[i].id : i \in 1..Len(cols)}
EarlierDescriptor(cols, id) == cols[CHOOSE i \in 1..Len(cols) : cols[i].id = id]

\* A step of the scan in which a line that passes the filters added its
\* descriptor; NewDescriptor is that descriptor.
LineAdded ==
    /\ Len(c_lines') = Len(c_lines) + 1
    /\ c_pc' = "scan"
    /\ PassesFilters(c_self, c_lines'[Len(c_lines')])
NewDescriptor == EarlierDescriptor(c_cols', c_lines'[Len(c_lines')].col_id)

\* C11: the targets of the descriptor a line adds are exactly the bindings of
\* its non-empty tokens, where a token that names an id of the prerequisite
\* groups is bound to the descriptor stored there, and any other token to the
\* descriptor an earlier line of this scan defined for the id; no target comes
\* from an empty token or from a line that follows.
C11_TokenBinding ==
    [][LineAdded =>
          LET line == c_lines'[Len(c_lines')]
              fromReqs == {c_reqs[d].column :
                              d \in {t \in Tokens(line) : StoredPrerequisite(t)}}
              fromRows == {EarlierDescriptor(c_cols, d) :
                              d \in {t \in Tokens(line) :
                                        t \notin PrerequisiteIds /\ t \in EarlierIds(c_cols)}}
          IN  DOMAIN NewDescriptor.targets = fromReqs \cup fromRows]_vars

\* A scan in which a line defined an id that a prerequisite group holds with
\* another descriptor, and a later line that names the id was bound to the
\* descriptor of the prerequisite group.
C11_Witness ==
    \E i, j \in 1..Len(c_cols) :
        /\ StoredPrerequisite(c_cols[i].id)
        /\ c_cols[i] # c_reqs[c_cols[i].id].column
        /\ c_reqs[c_cols[i].id].column \in DOMAIN c_cols[j].targets
        /\ c_cols[i] \notin DOMAIN c_cols[j].targets
        /\ \E k \in 2..Len(c_lines) :
              /\ c_lines[k].col_id = c_cols[j].id
              /\ c_cols[i].id \in Tokens(c_lines[k])
              /\ c_lines[k-1].col_id = c_cols[i].id


\* A step of the scan that handled a line which passes the filters and holds a
\* token found neither in the prerequisite groups nor among the ids of the
\* earlier lines.
DanglingTokens(line, cols) ==
    {t \in Tokens(line) : t \notin PrerequisiteIds /\ t \notin EarlierIds(cols)}
DanglingLineRead ==
    /\ Len(c_lines') = Len(c_lines) + 1
    /\ PassesFilters(c_self, c_lines'[Len(c_lines')])
    /\ DanglingTokens(c_lines'[Len(c_lines')], c_cols) # {}

\* C12: a line with a token found neither in the prerequisite groups nor among
\* the earlier lines raises no error; the scan goes on and the line's
\* descriptor is added with the targets of its other tokens.
C12_DanglingEdgeDropped ==
    [][DanglingLineRead =>
          LET line == c_lines'[Len(c_lines')]
              fromReqs == {c_reqs[d].column :
                              d \in {t \in Tokens(line) : StoredPrerequisite(t)}}
              fromRows == {EarlierDescriptor(c_cols, d) :
                              d \in {t \in Tokens(line) :
                                        t \notin PrerequisiteIds /\ t \in EarlierIds(c_cols)}}
          IN  /\ c_pc' = "scan"
              /\ line.col_id \in EarlierIds(c_cols')
              /\ DOMAIN NewDescriptor.targets = fromReqs \cup fromRows]_vars


\* C13: no descriptor of the column set holds None among its targets; a token
\* whose prerequisite lookup yields None leaves no target.
C13_NoNullTarget ==
    \A i \in 1..Len(c_cols) : None \notin DOMAIN c_cols[i].targets

\* The last line was added although one of its tokens names a column that the
\* task of a supplied prerequisite group has not stored.
C13_Witness ==
    /\ c_pc = "scan"
    /\ c_lines # <<>>
    /\ PassesFilters(c_self, LastLine)
    /\ \E t \in Tokens(LastLine) : t \in PrerequisiteIds /\ ~c_reqs[t].stored
    /\ LastLine.col_id \in EarlierIds(c_cols)


\* The relations of the targets of a descriptor.
Relations(descriptor) == {descriptor.targets[t] : t \in DOMAIN descriptor.targets}

\* C14: whatever the table, the targets a line creates all have the relation
\* 'universe' if column I of the line reads 'median' or 'average', and all
\* have the relation 'denominator' otherwise.
C14_RelationFollowsAggregate ==
    [][LineAdded =>
          LET line == c_lines'[Len(c_lines')]
          IN  Relations(NewDescriptor) \subseteq
                  (IF line.agg \in {"median", "average"}
                      THEN {"universe"} ELSE {"denominator"})]_vars

\* A step of the scan of table B02, all declared groups supplied, in which the
\* line added names a column of a prerequisite group.
B02LineAdded ==
    /\ LineAdded
    /\ c_self.tablename = Id.B02
    /\ AllSupplied
    /\ Tokens(c_lines'[Len(c_lines')]) \cap PrerequisiteIds # {}

\* C15 as stated: in the scan of B02 with B01 and B17B supplied, a token that
\* names a column of a prerequisite group is bound to the descriptor stored
\* there with the relation 'denominator'.
C15_PrerequisiteIsDenominator ==
    [][B02LineAdded =>
          \A t \in Tokens(c_lines'[Len(c_lines')]) \cap PrerequisiteIds :
              /\ c_reqs[t].column \in DOMAIN NewDescriptor.targets
              /\ NewDescriptor.targets[c_reqs[t].column] = "denominator"]_vars

\* C15, amended: the token is bound to the descriptor stored in the
\* prerequisite group, with the relation 'universe' if column I of the line
\* reads 'median' or 'average' and 'denominator' otherwise.
C15_PrerequisiteRelation ==
    [][B02LineAdded =>
          LET line == c_lines'[Len(c_lines')]
          IN  \A t \in Tokens(line) \cap PrerequisiteIds :
                  /\ c_reqs[t].column \in DOMAIN NewDescriptor.targets
                  /\ NewDescriptor.targets[c_reqs[t].column] =
                        (IF line.agg \in {"median", "average"}
                            THEN "universe" ELSE "denominator")]_vars

\* The scan of B02 with both groups supplied has added a line that carries
\* 'median' and names a B01 column, and the target has the relation 'universe'.
C15_Witness ==
    /\ c_self.tablename = Id.B02
    /\ AllSupplied
    /\ c_pc = "scan"
    /\ c_lines # <<>>
    /\ PassesFilters(c_self, LastLine)
    /\ LastLine.agg = "median"
    /\ <<Id.B01, 1>> \in Tokens(LastLine)
    /\ \E i \in 1..Len(c_cols) :
          /\ c_cols[i].id = LastLine.col_id
          /\ c_reqs[<<Id.B01, 1>>].column \in DOMAIN c_cols[i].targets
          /\ c_cols[i].targets[c_reqs[<<Id.B01, 1>>].column] = "universe"


\* C16: the ids of the column set are exactly the column ids of the lines
\* read so far whose marker starts with the first letter of the requested
\* profile and whose table id starts with the requested table id; a line of a
\* sibling part-table adds none.
C16_IncludedRows ==
    (c_pc \in {"scan", "returned"}) =>
        EarlierIds(c_cols) =
            {c_lines[k].col_id : k \in {n \in 1..Len(c_lines) : PassesFilters(c_self, c_lines[n])}}

\* columns() has returned for a part-table from a feed that holds a line of
\* the requested table and a line of its sibling.
C16_Witness ==
    /\ c_pc = "returned"
    /\ c_self.tablename = Id.B10A
    /\ \E j, k \in 1..Len(c_lines) :
          /\ c_lines[j].tablename = Id.B10B
          /\ c_lines[j].marker[1] = c_self.profile[1]
          /\ c_lines[k].tablename = Id.B10A
          /\ c_lines[k].marker[1] = c_self.profile[1]
    /\ Len(c_cols) = 1


\* The column ids of the lines that pass the filters, in the order of the
\* feed, each id at the place of its first line.
RECURSIVE FirstOccurrences(_, _)
FirstOccurrences(ids, seen) ==
    IF ids = <<>> THEN <<>>
    ELSE IF Head(ids) \in seen THEN FirstOccurrences(Tail(ids), seen)
    ELSE <<Head(ids)>> \o FirstOccurrences(Tail(ids), seen \cup {Head(ids)})
IncludedIds ==
    LET included == SelectSeq(c_lines, LAMBDA line : PassesFilters(c_self, line))
    IN  FirstOccurrences([i \in 1..Len(included) |-> included[i].col_id], {})

\* C17: the column set lists its ids in the order in which the lines that
\* define them appear in the feed, and the column set of the XCP task is the
\* geography-id column followed by those ids in the same order.
C17_FeedOrderKept ==
    /\ (c_pc \in {"scan", "returned", "handed"}) =>
          [i \in 1..Len(c_cols) |-> c_cols[i].id] = IncludedIds
    /\ (c_pc = "handed") =>
          [i \in 1..Len(c_xcp) |-> c_xcp[i].key] = <<REGION_ID>> \o IncludedIds

\* The XCP task holds the columns of a feed in which column 2 of the table
\* comes before column 1.
C17_Witness ==
    /\ c_pc = "handed"
    /\ Len(c_xcp) = 3
    /\ c_xcp[2].key = <<c_self.tablename, 2>>
    /\ c_xcp[3].key = <<c_self.tablename, 1>>


-----------------------------------------------------------------------------
(* Properties of the column lists of populate_general.                     *)

\* A statement has been built for a partition.
StatementBuilt == x_pc \in {"loop", "done"} /\ x_cmd # <<>>

\* The name of the source column of a column id: the id without the id of the
\* table and the underscore that follow each other at its head.
Unprefixed(key) == SubSeq(key, Len(x_self.tablename) + 2, Len(key))
WithoutLast(s) == SubSeq(s, 1, Len(s) - 1)

\* C18: the output column list of every statement is 'region_id' followed by
\* the lower-cased ids of the resolved set in its order; the select list has
\* the same length, begins with the geography-id source column, which is not
\* cast, and holds at place i the source column of the i-th entry of the
\* resolved set, cast to the type of its descriptor.
C18_ColumnListsFollowResolvedSet ==
    StatementBuilt =>
        /\ x_cmd.out_colnames =
              <<REGION_ID>> \o [i \in 1..Len(x_meta) |-> Lower(x_meta[i].key)]
        /\ Len(x_cmd.in_colnames) = Len(x_cmd.out_colnames)
        /\ x_cmd.in_colnames[1].cast = ""
        /\ x_cmd.in_colnames[1].name \in
              {REGION_ID, Chars[x_self.resolution] \o <<"_","C","O","D","E","_","2","0","1","6">>}
        /\ \A i \in 1..Len(x_meta) :
              /\ x_cmd.in_colnames[i + 1].cast = x_meta[i].value.column.type
              /\ x_cmd.in_colnames[i + 1].name \in
                    {Unprefixed(x_meta[i].key), WithoutLast(Unprefixed(x_meta[i].key))}

\* A statement built for a resolved set of two columns whose ids differ from
\* their lower-cased form.
C18_Witness ==
    /\ StatementBuilt
    /\ Len(x_meta) = 2
    /\ Len(x_cmd.in_colnames) = 3
    /\ x_cmd.out_colnames[2] # x_meta[1].key
    /\ x_cmd.in_colnames[3].name = <<"T","o","t","_","P">>
    /\ x_cmd.in_colnames[3].cast = "Numeric"

\* C19: the first item of the select list is 'region_id' for the year 2011
\* and '<resolution>_CODE_<year>' for any other year; 2016 is the one other
\* year TABLES holds.
C19_GeoidByYear ==
    StatementBuilt =>
        x_cmd.in_colnames[1].name =
            (IF x_self.year = 2011 THEN <<"r","e","g","i","o","n","_","i","d">>
             ELSE Chars[x_self.resolution] \o <<"_","C","O","D","E","_">>
                      \o <<"2","0","1","6">>)

\* A statement of the year 2016 at resolution SA1 selects SA1_CODE_2016.
C19_Witness ==
    /\ StatementBuilt
    /\ x_self.year = 2016
    /\ x_self.resolution = "SA1"
    /\ x_cmd.in_colnames[1].name = <<"S","A","1","_","C","O","D","E","_","2","0","1","6">>

\* The pairs of resolution and state for which the source table names the
\* measure 'Median_rent_weekly', without the trailing underscore.
ExceptionPairs ==
    {<<"RA", s>> : s \in Range(STATES)}
    \cup {<<"SA4", s>> : s \in {"Vic", "WA", "OT"}}
    \cup {<<"SA3", s>> : s \in {"Vic", "WA"}}
    \cup {<<"SA2", s>> : s \in {"Vic", "WA", "NSW"}}
    \cup {<<"SA1", s>> : s \in {"Vic", "WA", "Qld", "NT", "SA", "NSW"}}
    \cup {<<"GCCSA", s>> : s \in {"Vic", "WA", "OT"}}
    \cup {<<"LGA", "WA">>, <<"SLA", "WA">>}
    \cup {<<"SSC", s>> : s \in {"Vic", "WA", "Qld", "NT", "SA", "NSW"}}
    \cup {<<"POA", s>> : s \in {"WA", "Qld", "NSW"}}
    \cup {<<"CED", s>> : s \in {"Vic", "WA"}}
    \cup {<<"SED", s>> : s \in {"WA", "OT"}}

\* C20: the source column of the measure whose id ends in
\* 'Median_rent_weekly_' lacks the trailing underscore exactly in the
\* statements of the exception pairs; in every other statement, and for every
\* other column, the source column is the name the id carries.
C20_TrailingSeparator ==
    StatementBuilt =>
        \A i \in 1..Len(x_meta) :
            LET key == x_meta[i].key
                isMeasure == Len(key) >= 19 /\ SubSeq(key, Len(key) - 18, Len(key)) =
                    <<"M","e","d","i","a","n","_","r","e","n","t","_","w","e","e","k","l","y","_">>
            IN  x_cmd.in_colnames[i + 1].name =
                    (IF isMeasure /\ <<x_self.resolution, x_cmd.state>> \in ExceptionPairs
                        THEN WithoutLast(Unprefixed(key))
                        ELSE Unprefixed(key))

\* The statement of SA3 and Vic selects the measure as 'Median_rent_weekly'.
C20_Witness ==
    /\ StatementBuilt
    /\ x_self.resolution = "SA3"
    /\ x_cmd.state = "Vic"
    /\ \E i \in 1..Len(x_meta) :
          /\ x_meta[i].key = x_self.tablename \o <<"_">> \o MEDIAN_RENT_WEEKLY_
          /\ x_cmd.in_colnames[i + 1].name = MEDIAN_RENT_WEEKLY


-----------------------------------------------------------------------------
(* Properties of the choice of strategy and of XCP.requires.               *)

\* The partitions for which populate has executed a statement.
Attempted == {p \in DOMAIN attempts : attempts[p] # <<>>}

\* C21: populate runs the interpolation statement if and only if the
\* resolution is GEO_MB; for any other resolution it runs the statements of
\* direct projection, one for each entry of STATES and no other, those being
\* the keys of the data requires() declares.
C21_StrategyByResolution ==
    /\ (pc = "mb") => resolution = GEO_MB
    /\ (pc = "general") => resolution # GEO_MB
    /\ (GEO_MB \in Attempted) => resolution = GEO_MB
    /\ (Attempted \cap Range(STATES) # {}) => resolution # GEO_MB
    /\ PopulateEnded =>
          IF resolution = GEO_MB
             THEN Attempted = {GEO_MB} /\ Len(attempts[GEO_MB]) = 1
             ELSE LET data == XCPRequiresData(XCP(tablename, year, resolution))
                  IN  /\ Attempted = {data[i].key : i \in 1..Len(data)}
                      /\ Attempted = {"NSW", "Vic", "Qld", "SA", "WA", "Tas", "NT", "ACT", "OT"}
                      /\ \A s \in Attempted : Len(attempts[s]) = 1

\* populate has ended for the finest tier after its one statement.
C21_Witness ==
    /\ PopulateEnded
    /\ resolution = GEO_MB
    /\ Attempted = {GEO_MB}

\* C22: the materialization of the finest-tier table has begun only if the
\* table of the parent tier SA1 for the same year and table id is complete;
\* the tasks of the graph that materialize a table are these two, and the
\* task of the parent tier requires no materialization.
C22_ParentTierFirst ==
    \A task \in DOMAIN status :
        (IsXCP(task) /\ task.resolution = GEO_MB) =>
            LET parent == [tablename |-> task.tablename, year |-> task.year,
                           resolution |-> GEO_SA1]
            IN  /\ parent \in DOMAIN status
                /\ status[task] # "pending" => status[parent] = "done"
                /\ {t \in DOMAIN status : IsXCP(t)} = {task, parent}
                /\ \A r \in TaskRequires(parent) : ~IsXCP(r)

\* The finest-tier table is being materialized.
C22_Witness ==
    \E task \in DOMAIN status :
        /\ IsXCP(task)
        /\ task.resolution = GEO_MB
        /\ status[task] = "running"


-----------------------------------------------------------------------------
(* Properties of populate_mb.                                              *)

\* h hundredths is value * (mbArea / sa1Area) rounded to two decimals: it lies
\* within half a hundredth of the product, a half going up.
IsRoundedProduct(h, value, mbArea, sa1Area) ==
    /\ 2 * sa1Area * h - sa1Area <= 200 * value * mbArea
    /\ 200 * value * mbArea < 2 * sa1Area * h + sa1Area

\* The rows of the three tables a row of the output is derived from.
OutputSources(row) ==
    {j \in m_mb \X m_sa1geo \X m_sa1data :
        /\ j[1].geom_id = row[1]
        /\ j[2].geom_id = j[1].parent_id
        /\ j[3].region_id = j[1].parent_id}

\* C23: in every row the statement inserts, every column other than the
\* geography id holds the value of that column in the parent's row times the
\* ratio of the child's area to the parent's, rounded once to two decimals;
\* equal parent values and equal ratios give equal results, whatever the row
\* and the column.
C23_InterpolatedOnce ==
    (m_pc = "executed") =>
        /\ m_stmt.out_colnames[1] = REGION_ID
        /\ Len(m_stmt.out_colnames) = Len(MbColumnNames) + 1
        /\ \A row \in m_out : \A j \in OutputSources(row) :
              \A i \in 2..Len(m_stmt.out_colnames) :
                  IsRoundedProduct(row[i], j[3].cols[m_stmt.out_colnames[i]],
                                   j[1].area, j[2].area)
        /\ \A r1, r2 \in m_out : \A j1 \in OutputSources(r1), j2 \in OutputSources(r2) :
              \A i1, i2 \in 2..Len(m_stmt.out_colnames) :
                  (/\ j1[3].cols[m_stmt.out_colnames[i1]] = j2[3].cols[m_stmt.out_colnames[i2]]
                   /\ j1[1].area * j2[2].area = j2[1].area * j1[2].area)
                      => r1[i1] = r2[i2]

\* A row was inserted whose value 2 * (1/3) became 0.67.
C23_Witness ==
    /\ m_pc = "executed"
    /\ \E row \in m_out : \E j \in OutputSources(row) :
          /\ j[1].area = 1 /\ j[2].area = 3
          /\ j[3].cols[m_stmt.out_colnames[2]] = 2
          /\ row[2] = 67

\* The geometries of the finest tier whose parent id names a geometry of the
\* parent tier and a row of the parent's table.
MatchedChildren ==
    {mb \in m_mb : /\ \E g \in m_sa1geo : g.geom_id = mb.parent_id
                   /\ \E d \in m_sa1data : d.region_id = mb.parent_id}

\* C24: the statement inserts one row for each geometry of the finest tier
\* whose parent id names a geometry of the parent tier and a row of the
\* parent's table, and none for any other; the row carries the id of the
\* child and values derived from the row of that parent.
C24_JoinPath ==
    (m_pc = "executed") =>
        /\ {row[1] : row \in m_out} = {mb.geom_id : mb \in MatchedChildren}
        /\ Cardinality(m_out) = Cardinality(MatchedChildren)
        /\ \A row \in m_out :
              \E mb \in MatchedChildren : \E g \in m_sa1geo : \E d \in m_sa1data :
                  /\ mb.geom_id = row[1]
                  /\ g.geom_id = mb.parent_id
                  /\ d.region_id = mb.parent_id
                  /\ \A i \in 2..Len(row) :
                        IsRoundedProduct(row[i], d.cols[m_stmt.out_colnames[i]],
                                         mb.area, g.area)

\* Of two geometries of the finest tier one was given a row; the parent of the
\* other has a geometry but no row in the parent's table.
C24_Witness ==
    /\ m_pc = "executed"
    /\ Cardinality(m_mb) = 2
    /\ Cardinality(m_out) = 1
    /\ \E mb \in m_mb \ MatchedChildren : \E g \in m_sa1geo : g.geom_id = mb.parent_id


-----------------------------------------------------------------------------
(* Properties of the weight of a descriptor.                               *)

\* The resolved set with every weight replaced by w.
Reweighted(cols, w) ==
    [i \in 1..Len(cols) |->
        [cols[i] EXCEPT !.value = [@ EXCEPT !.column = [@ EXCEPT !.weight = w]]]]

\* C25: a descriptor of the resolved set with weight 0 reaches column_targets
\* as it is, weight and aggregate included; the column lists of every
\* statement are those built for the same set with any other weight; and
\* should_upload alone reads the weight: it accepts the table if and only if
\* some column has a weight above 0 and the table is not the one it refuses by
\* name.
C25_WeightZeroRoundTrip ==
    /\ (x_pc \in {"loop", "done", "synced"}) =>
          /\ Len(x_cols) = Len(x_meta) + 1
          /\ \A i \in 1..Len(x_meta) :
                /\ x_cols[i + 1].key = x_meta[i].key
                /\ x_cols[i + 1].value = x_meta[i].value
    /\ StatementBuilt =>
          \A w \in Weights \cup {10} :
              /\ x_cmd.out_colnames = OutColnames(Reweighted(x_cols, w))
              /\ x_cmd.in_colnames = InColnames(x_self, x_cmd.state, Reweighted(x_cols, w))
    /\ (x_pc = "synced") =>
          (x_upload.upload <=>
              /\ x_upload.tablename # "obs_ffebc3eb689edab4faa757f75ca02c65d7db7327"
              /\ \E i \in 1..Len(x_cols) : x_cols[i].value.column.weight > 0)

\* A table of two columns, the first of weight 0 and the second above, was
\* projected and is accepted by should_upload.
C25_Witness ==
    /\ x_pc = "synced"
    /\ Len(x_meta) = 2
    /\ x_cols[2].value.column.weight = 0
    /\ x_cols[3].value.column.weight = 5
    /\ x_cmd # <<>>
    /\ x_upload.upload


-----------------------------------------------------------------------------
(* Properties of the merged prerequisite set.                              *)

\* C26: whatever the profile, column_reqs holds every descriptor of every
\* group that requires() declares for the table and that input_ supplies.
C26_DeclaredGroupsMerged ==
    (c_pc # "idle") =>
        \A i \in 1..Len(c_input) :
            c_input[i].key \in Range(RequiresKeys(c_self)) =>
                \A id \in DOMAIN c_input[i].value :
                    id \in DOMAIN c_reqs /\ c_reqs[id] = c_input[i].value[id]

-----------------------------------------------------------------------------
(* C27: XCPAllTables(year, resolution) requires exactly one XCP task for   *)
(* each table id listed in TABLES for that year, and no task for any       *)
(* other table name.                                                       *)

YieldedTablenames == {w_yielded[i].tablename : i \in 1..Len(w_yielded)}

C27_OneTaskPerTable ==
    w_pc = "done" =>
        /\ YieldedTablenames = Range(TABLES[w_self.year])
        /\ Len(w_yielded) = Len(TABLES[w_self.year])
        /\ \A i \in 1..Len(w_yielded) :
               w_yielded[i] =
                   XCP(w_yielded[i].tablename, w_self.year, w_self.resolution)

\* What the loop yields instead: one task per census year, named by the year.
C27_OneTaskPerYear ==
    w_pc = "done" =>
        /\ YieldedTablenames = {IntToStr(y) : y \in DOMAIN TABLES}
        /\ Len(w_yielded) = Cardinality(DOMAIN TABLES)

-----------------------------------------------------------------------------
(* C28: filter_columns keeps a column if and only if (it declares no       *)
(* conditions, or at least one condition agrees with the parameters on     *)
(* every key the two share) and (it declares no exceptions, or no          *)
(* exception agrees with the parameters on every key the two share); the   *)
(* kept columns retain their input order, and filtering an already         *)
(* filtered set with the same parameters changes nothing.                  *)

\* The requirements a column declares under key (none when the key is absent).
DeclaredList(colid, key) ==
    IF key \in DOMAIN f_decl[colid] THEN Range(f_decl[colid][key]) ELSE {}

Agrees(requirement) ==
    LET params == JsonLoads(f_params)
    IN  \A k \in DOMAIN requirement \cap DOMAIN params : requirement[k] = params[k]

ShouldKeep(colid) ==
    /\ \/ DeclaredList(colid, CONDITIONS) = {}
       \/ \E r \in DeclaredList(colid, CONDITIONS) : Agrees(r)
    /\ \/ DeclaredList(colid, EXCEPTIONS) = {}
       \/ ~\E r \in DeclaredList(colid, EXCEPTIONS) : Agrees(r)

PositionIn(columns, item) == CHOOSE i \in 1..Len(columns) : columns[i] = item

C28_FilterColumns ==
    /\ f_pc = "filtered" =>
        /\ Range(f_kept) = {item \in Range(f_columns) : ShouldKeep(item[1])}
        /\ \A i, j \in 1..Len(f_kept) :
               i < j => PositionIn(f_columns, f_kept[i]) < PositionIn(f_columns, f_kept[j])
    /\ f_pc = "refiltered" => f_kept = f_columns

\* A column with conditions and exceptions is kept, another is dropped.
C28_Witness ==
    /\ f_pc = "filtered"
    /\ Declared(f_decl, "c1", CONDITIONS) /\ Declared(f_decl, "c1", EXCEPTIONS)
    /\ Len(f_params) = 2
    /\ <<"c1", "total">> \in Range(f_kept)
    /\ <<"c3", "female">> \notin Range(f_kept)
    /\ Len(f_kept) = 2

-----------------------------------------------------------------------------
(* C29: after any run of PurgeUndocumentedTables no table that contained   *)
(* rows and no metadata table named in META_TABLES has been dropped:       *)
(* every dropped table was empty, had no obs_table entry and was not a     *)
(* metadata table; an undocumented table with rows makes the run raise     *)
(* and is left intact.                                                     *)

\* The undocumented tables with rows still in the schema, metadata aside.
UndocumentedWithRows ==
    {t \in p_tables : t.name \notin Range(META_TABLES) /\ ~t.documented /\ t.rows # 0}

C29_PurgeSpares ==
    /\ \A t \in p_dropped :
        /\ t.rows = 0
        /\ ~t.documented
        /\ t.name \notin Range(META_TABLES)
    /\ p_pc = "returned" => UndocumentedWithRows = {}
    /\ p_pc = "raised" => UndocumentedWithRows # {}

\* What the loop guarantees: it spares the tables of its own tuple of names.
C29_PurgeSparesSkipped ==
    /\ \A t \in p_dropped :
        /\ t.rows = 0
        /\ ~t.documented
        /\ t.name \notin Range(PurgeSkipped)
    /\ p_pc = "returned" => UndocumentedWithRows = {}

-----------------------------------------------------------------------------
(* C30: for an OBSMetaToCarto task created with force set, over any        *)
(* sequence of output() and run() calls the remote obs_meta table is       *)
(* removed at most once, and the table created by the task's own run is    *)
(* never removed by a later output() call.                                 *)

C30_RemovedOnceNeverOwn ==
    /\ Len(o_removed) <= 1
    /\ "run" \notin Range(o_removed)

\* The first half alone: force is cleared by the one removal.
C30_RemovedAtMostOnce == Len(o_removed) <= 1 /\ (o_removed # <<>> => ~o_force)

====
